---- MODULE Spec2Model ----
(***************************************************************************)
(* Model of the text-humanization / voice-transformation engine of the     *)
(* SOP generation tool (src/tools.py, src/core/tools.py, src/human.py).    *)
(*                                                                         *)
(* A Python str is modelled as a sequence of one-character strings, so     *)
(* that regular-expression matching, word boundaries and letter case are   *)
(* computed character by character as the re module computes them.         *)
(***************************************************************************)
EXTENDS Integers, Sequences, FiniteSets, TLC

VARIABLES
    arg,      \* the text the caller passes to the operation
    op,       \* the operation the caller has invoked ("none" before the call)
    out,      \* the value the operation returned
    pc,       \* position inside a running humanize_text call
    text,     \* the local variable `text` of the running humanize_text call
    idx,      \* number of table entries the running loop has applied
    faulted,  \* whether the except branch of humanize_text was taken
    order,    \* order[i] is the table entry the caller's dict lists in place i
    target_voice,  \* the target_voice argument of a transform_voice call
    sentences,     \* the local list `sentences` of transform_voice
    transformed,   \* the local list `transformed` of transform_voice
    self_contractions,  \* the attribute self.contractions of the engine
    self_idioms,        \* the attribute self.idioms of the engine
    calls     \* the calls made to collaborators outside the program, in order

vars == <<arg, op, out, pc, text, idx, faulted, order,
          target_voice, sentences, transformed, self_contractions, self_idioms,
          calls>>

\* the two tables of the engine object
tables == <<self_contractions, self_idioms>>

\* the locals of transform_voice, untouched by the other operations
voiceVars == <<target_voice, sentences, transformed>>

(***************************************************************************)
(* Bounds of the model.                                                    *)
(***************************************************************************)
MaxPieces == 3      \* an input text is built from at most this many pieces
MaxStepPieces == 2  \* the same, for the texts of the step-by-step specification
MaxOrderPieces == 2 \* the same, for the texts of the table-order specification
MaxVoicePieces == 4 \* the same, for the texts of the voice specification
MaxCallPieces == 2  \* the same, for the texts of the voice-call specification
NumThreads == 2     \* humanize_text calls running at the same time
MaxAgents == 3      \* the agents one SOPAgents object is asked for

(***************************************************************************)
(* Characters: classes used by \b, \w and re.IGNORECASE.                   *)
(***************************************************************************)
LowerLetters ==
    {"a","b","c","d","e","f","g","h","i","j","k","l","m",
     "n","o","p","q","r","s","t","u","v","w","x","y","z"}

ToLower ==
    [A |-> "a", B |-> "b", C |-> "c", D |-> "d", E |-> "e", F |-> "f",
     G |-> "g", H |-> "h", I |-> "i", J |-> "j", K |-> "k", L |-> "l",
     M |-> "m", N |-> "n", O |-> "o", P |-> "p", Q |-> "q", R |-> "r",
     S |-> "s", T |-> "t", U |-> "u", V |-> "v", W |-> "w", X |-> "x",
     Y |-> "y", Z |-> "z"]

ToUpper ==
    [a |-> "A", b |-> "B", c |-> "C", d |-> "D", e |-> "E", f |-> "F",
     g |-> "G", h |-> "H", i |-> "I", j |-> "J", k |-> "K", l |-> "L",
     m |-> "M", n |-> "N", o |-> "O", p |-> "P", q |-> "Q", r |-> "R",
     s |-> "S", t |-> "T", u |-> "U", v |-> "V", w |-> "W", x |-> "X",
     y |-> "Y", z |-> "Z"]

UpperLetters == DOMAIN ToLower

Digits == {"0","1","2","3","4","5","6","7","8","9"}

\* \w : letters, digits and the underscore
WordChars == LowerLetters \cup UpperLetters \cup Digits \cup {"_"}

IsWordChar(c) == c \in WordChars

\* (no case folding: flags=re.IGNORECASE left out)
FoldExact(c) == c

\* re.IGNORECASE compares characters after case folding
Fold(c) == IF c \in UpperLetters THEN ToLower[c] ELSE c

(***************************************************************************)
(* The tables built by __init__, in dict insertion order.                  *)
(***************************************************************************)
\* (the pronoun entries 'you are', 'they are' listed ahead of the 'not' entries)
contractions_pronouns_first ==
    << << <<"y","o","u"," ","a","r","e">>, <<"y","o","u","'","r","e">> >>,
       << <<"t","h","e","y"," ","a","r","e">>, <<"t","h","e","y","'","r","e">> >>,
       << <<"c","a","n","n","o","t">>, <<"c","a","n","'","t">> >>,
       << <<"w","i","l","l"," ","n","o","t">>, <<"w","o","n","'","t">> >>,
       << <<"s","h","a","l","l"," ","n","o","t">>, <<"s","h","a","n","'","t">> >>,
       << <<"d","o"," ","n","o","t">>, <<"d","o","n","'","t">> >>,
       << <<"d","o","e","s"," ","n","o","t">>, <<"d","o","e","s","n","'","t">> >>,
       << <<"d","i","d"," ","n","o","t">>, <<"d","i","d","n","'","t">> >>,
       << <<"i","s"," ","n","o","t">>, <<"i","s","n","'","t">> >>,
       << <<"a","r","e"," ","n","o","t">>, <<"a","r","e","n","'","t">> >>,
       << <<"w","a","s"," ","n","o","t">>, <<"w","a","s","n","'","t">> >>,
       << <<"h","a","v","e"," ","n","o","t">>, <<"h","a","v","e","n","'","t">> >>,
       << <<"h","a","s"," ","n","o","t">>, <<"h","a","s","n","'","t">> >>,
       << <<"I"," ","a","m">>, <<"I","'","m">> >> >>

\* self.contractions as __init__ of src/tools.py builds it
contractions ==
    << << <<"c","a","n","n","o","t">>, <<"c","a","n","'","t">> >>,
       << <<"w","i","l","l"," ","n","o","t">>, <<"w","o","n","'","t">> >>,
       << <<"s","h","a","l","l"," ","n","o","t">>, <<"s","h","a","n","'","t">> >>,
       << <<"d","o"," ","n","o","t">>, <<"d","o","n","'","t">> >>,
       << <<"d","o","e","s"," ","n","o","t">>, <<"d","o","e","s","n","'","t">> >>,
       << <<"d","i","d"," ","n","o","t">>, <<"d","i","d","n","'","t">> >>,
       << <<"i","s"," ","n","o","t">>, <<"i","s","n","'","t">> >>,
       << <<"a","r","e"," ","n","o","t">>, <<"a","r","e","n","'","t">> >>,
       << <<"w","a","s"," ","n","o","t">>, <<"w","a","s","n","'","t">> >>,
       << <<"h","a","v","e"," ","n","o","t">>, <<"h","a","v","e","n","'","t">> >>,
       << <<"h","a","s"," ","n","o","t">>, <<"h","a","s","n","'","t">> >>,
       << <<"I"," ","a","m">>, <<"I","'","m">> >>,
       << <<"y","o","u"," ","a","r","e">>, <<"y","o","u","'","r","e">> >>,
       << <<"t","h","e","y"," ","a","r","e">>, <<"t","h","e","y","'","r","e">> >> >>

\* (an entry whose phrase is also a contraction phrase added to the idioms)
idioms_with_are_not ==
    << << <<"i","n"," ","a","d","d","i","t","i","o","n">>,
          <<"o","n"," ","t","o","p"," ","o","f"," ","t","h","a","t">> >>,
       << <<"f","o","r"," ","e","x","a","m","p","l","e">>, <<"l","i","k","e">> >>,
       << <<"t","h","e","r","e","f","o","r","e">>, <<"s","o">> >>,
       << <<"h","o","w","e","v","e","r">>, <<"t","h","o","u","g","h">> >>,
       << <<"n","e","v","e","r","t","h","e","l","e","s","s">>, <<"s","t","i","l","l">> >>,
       << <<"s","u","b","s","e","q","u","e","n","t","l","y">>, <<"t","h","e","n">> >>,
       << <<"f","u","r","t","h","e","r","m","o","r","e">>, <<"a","l","s","o">> >>,
       << <<"i","n"," ","c","o","n","c","l","u","s","i","o","n">>,
          <<"t","o"," ","w","r","a","p"," ","t","h","i","n","g","s"," ","u","p">> >>,
       << <<"a","r","e"," ","n","o","t">>, <<"a","i","n","'","t">> >> >>

\* self.idioms as __init__ of src/tools.py builds it
idioms ==
    << << <<"i","n"," ","a","d","d","i","t","i","o","n">>,
          <<"o","n"," ","t","o","p"," ","o","f"," ","t","h","a","t">> >>,
       << <<"f","o","r"," ","e","x","a","m","p","l","e">>, <<"l","i","k","e">> >>,
       << <<"t","h","e","r","e","f","o","r","e">>, <<"s","o">> >>,
       << <<"h","o","w","e","v","e","r">>, <<"t","h","o","u","g","h">> >>,
       << <<"n","e","v","e","r","t","h","e","l","e","s","s">>, <<"s","t","i","l","l">> >>,
       << <<"s","u","b","s","e","q","u","e","n","t","l","y">>, <<"t","h","e","n">> >>,
       << <<"f","u","r","t","h","e","r","m","o","r","e">>, <<"a","l","s","o">> >>,
       << <<"i","n"," ","c","o","n","c","l","u","s","i","o","n">>,
          <<"t","o"," ","w","r","a","p"," ","t","h","i","n","g","s"," ","u","p">> >> >>

(***************************************************************************)
(* The tables of the other two copies of the engine, as their own __init__ *)
(* builds them.                                                            *)
(***************************************************************************)
\* self.contractions of src/core/tools.py
core_contractions ==
    << << <<"c","a","n","n","o","t">>, <<"c","a","n","'","t">> >>,
       << <<"w","i","l","l"," ","n","o","t">>, <<"w","o","n","'","t">> >>,
       << <<"s","h","a","l","l"," ","n","o","t">>,
          <<"s","h","a","n","'","t">> >>,
       << <<"d","o"," ","n","o","t">>, <<"d","o","n","'","t">> >>,
       << <<"d","o","e","s"," ","n","o","t">>,
          <<"d","o","e","s","n","'","t">> >>,
       << <<"d","i","d"," ","n","o","t">>, <<"d","i","d","n","'","t">> >>,
       << <<"i","s"," ","n","o","t">>, <<"i","s","n","'","t">> >>,
       << <<"a","r","e"," ","n","o","t">>, <<"a","r","e","n","'","t">> >>,
       << <<"w","a","s"," ","n","o","t">>, <<"w","a","s","n","'","t">> >>,
       << <<"h","a","v","e"," ","n","o","t">>,
          <<"h","a","v","e","n","'","t">> >>,
       << <<"h","a","s"," ","n","o","t">>, <<"h","a","s","n","'","t">> >>,
       << <<"I"," ","a","m">>, <<"I","'","m">> >>,
       << <<"y","o","u"," ","a","r","e">>, <<"y","o","u","'","r","e">> >>,
       << <<"t","h","e","y"," ","a","r","e">>,
          <<"t","h","e","y","'","r","e">> >> >>

\* (a copy in which the entry for 'therefore' was edited on its own)
core_idioms_drifted ==
    << << <<"i","n"," ","a","d","d","i","t","i","o","n">>,
          <<"o","n"," ","t","o","p"," ","o","f"," ","t","h","a","t">> >>,
       << <<"f","o","r"," ","e","x","a","m","p","l","e">>,
          <<"l","i","k","e">> >>,
       << <<"t","h","e","r","e","f","o","r","e">>, <<"t","h","u","s">> >>,
       << <<"h","o","w","e","v","e","r">>, <<"t","h","o","u","g","h">> >>,
       << <<"n","e","v","e","r","t","h","e","l","e","s","s">>,
          <<"s","t","i","l","l">> >>,
       << <<"s","u","b","s","e","q","u","e","n","t","l","y">>,
          <<"t","h","e","n">> >>,
       << <<"f","u","r","t","h","e","r","m","o","r","e">>,
          <<"a","l","s","o">> >>,
       << <<"i","n"," ","c","o","n","c","l","u","s","i","o","n">>,
          <<"t","o"," ","w","r","a","p"," ","t","h","i","n","g","s"," ","u","p">> >> >>

\* self.idioms of src/core/tools.py
core_idioms ==
    << << <<"i","n"," ","a","d","d","i","t","i","o","n">>,
          <<"o","n"," ","t","o","p"," ","o","f"," ","t","h","a","t">> >>,
       << <<"f","o","r"," ","e","x","a","m","p","l","e">>,
          <<"l","i","k","e">> >>,
       << <<"t","h","e","r","e","f","o","r","e">>, <<"s","o">> >>,
       << <<"h","o","w","e","v","e","r">>, <<"t","h","o","u","g","h">> >>,
       << <<"n","e","v","e","r","t","h","e","l","e","s","s">>,
          <<"s","t","i","l","l">> >>,
       << <<"s","u","b","s","e","q","u","e","n","t","l","y">>,
          <<"t","h","e","n">> >>,
       << <<"f","u","r","t","h","e","r","m","o","r","e">>,
          <<"a","l","s","o">> >>,
       << <<"i","n"," ","c","o","n","c","l","u","s","i","o","n">>,
          <<"t","o"," ","w","r","a","p"," ","t","h","i","n","g","s"," ","u","p">> >> >>

\* self.contractions of src/human.py
human_contractions ==
    << << <<"c","a","n","n","o","t">>, <<"c","a","n","'","t">> >>,
       << <<"w","i","l","l"," ","n","o","t">>, <<"w","o","n","'","t">> >>,
       << <<"s","h","a","l","l"," ","n","o","t">>,
          <<"s","h","a","n","'","t">> >>,
       << <<"d","o"," ","n","o","t">>, <<"d","o","n","'","t">> >>,
       << <<"d","o","e","s"," ","n","o","t">>,
          <<"d","o","e","s","n","'","t">> >>,
       << <<"d","i","d"," ","n","o","t">>, <<"d","i","d","n","'","t">> >>,
       << <<"i","s"," ","n","o","t">>, <<"i","s","n","'","t">> >>,
       << <<"a","r","e"," ","n","o","t">>, <<"a","r","e","n","'","t">> >>,
       << <<"w","a","s"," ","n","o","t">>, <<"w","a","s","n","'","t">> >>,
       << <<"h","a","v","e"," ","n","o","t">>,
          <<"h","a","v","e","n","'","t">> >>,
       << <<"h","a","s"," ","n","o","t">>, <<"h","a","s","n","'","t">> >>,
       << <<"I"," ","a","m">>, <<"I","'","m">> >>,
       << <<"y","o","u"," ","a","r","e">>, <<"y","o","u","'","r","e">> >>,
       << <<"t","h","e","y"," ","a","r","e">>,
          <<"t","h","e","y","'","r","e">> >> >>

\* self.idioms of src/human.py
human_idioms ==
    << << <<"i","n"," ","a","d","d","i","t","i","o","n">>,
          <<"o","n"," ","t","o","p"," ","o","f"," ","t","h","a","t">> >>,
       << <<"f","o","r"," ","e","x","a","m","p","l","e">>,
          <<"l","i","k","e">> >>,
       << <<"t","h","e","r","e","f","o","r","e">>, <<"s","o">> >>,
       << <<"h","o","w","e","v","e","r">>, <<"t","h","o","u","g","h">> >>,
       << <<"n","e","v","e","r","t","h","e","l","e","s","s">>,
          <<"s","t","i","l","l">> >>,
       << <<"s","u","b","s","e","q","u","e","n","t","l","y">>,
          <<"t","h","e","n">> >>,
       << <<"f","u","r","t","h","e","r","m","o","r","e">>,
          <<"a","l","s","o">> >>,
       << <<"i","n"," ","c","o","n","c","l","u","s","i","o","n">>,
          <<"t","o"," ","w","r","a","p"," ","t","h","i","n","g","s"," ","u","p">> >> >>

\* a dict yields its entries in insertion order: here, the order written above
TableOrder == [i \in 1..Len(contractions) |-> i]

(***************************************************************************)
(* re.sub(r'\b' + formal + r'\b', repl, text, flags=re.IGNORECASE)         *)
(***************************************************************************)
\* \b at the gap in front of s[p]: exactly one side of the gap is a \w
WordBoundary(s, p) ==
    (p > 1 /\ IsWordChar(s[p - 1])) # (p <= Len(s) /\ IsWordChar(s[p]))

\* (pattern without the two \b anchors)
MatchAtNoBoundary(formal, s, p) ==
    /\ p + Len(formal) - 1 <= Len(s)
    /\ \A k \in 1..Len(formal) : Fold(s[p + k - 1]) = Fold(formal[k])

\* (text lower-cased before matching instead of re.IGNORECASE)
MatchAtFoldText(formal, s, p) ==
    /\ p + Len(formal) - 1 <= Len(s)
    /\ \A k \in 1..Len(formal) : Fold(s[p + k - 1]) = formal[k]
    /\ WordBoundary(s, p)
    /\ WordBoundary(s, p + Len(formal))

\* the pattern matches s starting at position p
MatchAt(formal, s, p) ==
    /\ p + Len(formal) - 1 <= Len(s)
    /\ \A k \in 1..Len(formal) : Fold(s[p + k - 1]) = Fold(formal[k])
    /\ WordBoundary(s, p)
    /\ WordBoundary(s, p + Len(formal))

\* left-to-right scan from position p: the text up to the leftmost match is
\* copied, the match is replaced and the scan resumes right behind it
RECURSIVE re_sub_from(_, _, _, _)
re_sub_from(formal, repl, s, p) ==
    IF \E q \in p..Len(s) : MatchAt(formal, s, q)
    THEN LET q == CHOOSE q \in p..Len(s) :
                      /\ MatchAt(formal, s, q)
                      /\ \A r \in p..(q - 1) : ~MatchAt(formal, s, r)
         IN  SubSeq(s, p, q - 1) \o repl \o re_sub_from(formal, repl, s, q + Len(formal))
    ELSE SubSeq(s, p, Len(s))

\* (count=1: only the leftmost match is replaced)
re_sub_first(formal, repl, s) ==
    IF \E p \in 1..Len(s) : MatchAt(formal, s, p)
    THEN LET p == CHOOSE q \in 1..Len(s) :
                      /\ MatchAt(formal, s, q)
                      /\ \A r \in 1..(q - 1) : ~MatchAt(formal, s, r)
         IN  SubSeq(s, 1, p - 1) \o repl \o SubSeq(s, p + Len(formal), Len(s))
    ELSE s

re_sub(formal, repl, s) == re_sub_from(formal, repl, s, 1)

\* (the loop left at the first entry that changed the text)
RECURSIVE SubstituteFirstHit(_, _, _)
SubstituteFirstHit(table, n, s) ==
    IF n > Len(table) THEN s
    ELSE LET r == re_sub(table[n][1], table[n][2], s)
         IN  IF r # s THEN r ELSE SubstituteFirstHit(table, n + 1, s)

\* for formal, repl in table.items(): text = re.sub(...)  (entries n .. end)
RECURSIVE SubstituteFrom(_, _, _)
SubstituteFrom(table, n, s) ==
    IF n > Len(table) THEN s
    ELSE SubstituteFrom(table, n + 1, re_sub(table[n][1], table[n][2], s))

apply_contractions(s, table) == SubstituteFrom(table, 1, s)

apply_idioms(s, table) == SubstituteFrom(table, 1, s)

\* the try body of humanize_text: contractions loop, then idioms loop
humanize_text(s) ==
    SubstituteFrom(self_idioms, 1, SubstituteFrom(self_contractions, 1, s))

\* humanize_text of src/core/tools.py: the same two loops over its own tables
core_humanize_text(s) ==
    SubstituteFrom(core_idioms, 1, SubstituteFrom(core_contractions, 1, s))

\* src/human.py: apply_idioms(apply_contractions(text, self.contractions),
\* self.idioms) on a TextTransformationTools object
human_humanize(s) ==
    apply_idioms(apply_contractions(s, human_contractions), human_idioms)

(***************************************************************************)
(* Input texts: every concatenation of at most MaxPieces pieces, and the   *)
(* example text of the documentation.  The pieces are table phrases,       *)
(* fragments of phrases that meet or overlap when concatenated             *)
(* ("you " + "are" + " not"), letters that extend a phrase into a longer   *)
(* word ("cannot" + "ation"), and separators.                              *)
(***************************************************************************)
Pieces ==
    { <<"c","a","n","n","o","t">>,
      <<"a","t","i","o","n">>,
      <<"y","o","u"," ">>,
      <<"a","r","e">>,
      <<" ","n","o","t">>,
      <<"I"," ","A","M">>,
      <<"I","n"," ","a","d","d","i","t","i","o","n">>,
      <<"t","h","e","r","e","f","o","r","e">>,
      <<" ">>,
      <<"_">> }

RECURSIVE Concat(_)
Concat(ps) == IF ps = <<>> THEN <<>> ELSE Head(ps) \o Concat(Tail(ps))

ExampleText ==
    <<"I"," ","c","a","n","n","o","t"," ","b","e","l","i","e","v","e"," ",
      "t","h","a","t"," ","y","o","u"," ","a","r","e"," ","n","o","t"," ",
      "c","o","m","i","n","g","."," ","I","n"," ","a","d","d","i","t","i",
      "o","n",","," ","t","h","e"," ","t","e","a","m"," ","c","o","m","p",
      "l","e","t","e","d"," ","t","h","e"," ","t","a","s","k",".">>

ExampleHumanized ==
    <<"I"," ","c","a","n","'","t"," ","b","e","l","i","e","v","e"," ","t",
      "h","a","t"," ","y","o","u"," ","a","r","e","n","'","t"," ","c","o",
      "m","i","n","g","."," ","o","n"," ","t","o","p"," ","o","f"," ","t",
      "h","a","t",","," ","t","h","e"," ","t","e","a","m"," ","c","o","m",
      "p","l","e","t","e","d"," ","t","h","e"," ","t","a","s","k",".">>

Inputs ==
    { Concat(ps) : ps \in UNION { [1..n -> Pieces] : n \in 0..MaxPieces } }
        \cup {ExampleText}

(***************************************************************************)
(* Specification Spec: the caller passes a text to one operation of the    *)
(* engine, which returns the transformed text.                             *)
(***************************************************************************)
Init ==
    /\ arg \in Inputs
    /\ op = "none"
    /\ out = <<>>
    /\ pc = "idle"
    /\ text = <<>>
    /\ idx = 0
    /\ faulted = FALSE
    /\ order = TableOrder
    /\ target_voice = "none"
    /\ sentences = <<>>
    /\ transformed = <<>>
    /\ self_contractions = contractions
    /\ self_idioms = idioms
    /\ calls = <<>>

Returns(name, value) ==
    /\ op = "none"
    /\ op' = name
    /\ out' = value
    /\ UNCHANGED <<arg, pc, text, idx, faulted, order, voiceVars, tables,
                   calls>>

CallApplyContractions == Returns("apply_contractions", apply_contractions(arg, contractions))

CallApplyIdioms == Returns("apply_idioms", apply_idioms(arg, idioms))

CallHumanizeText == Returns("humanize_text", humanize_text(arg))

Next ==
    \/ CallApplyContractions
    \/ CallApplyIdioms
    \/ CallHumanizeText

Spec == Init /\ [][Next]_vars

(***************************************************************************)
(* Vocabulary of the properties, written without the matcher above.        *)
(***************************************************************************)
\* two characters are the same letter up to case
SameLetter(a, b) ==
    \/ a = b
    \/ a \in UpperLetters /\ ToLower[a] = b
    \/ b \in UpperLetters /\ ToLower[b] = a

\* phrase occurs in s at position p as a substring, letter case ignored
RawOccurrence(phrase, s, p) ==
    /\ p >= 1
    /\ p + Len(phrase) - 1 <= Len(s)
    /\ \A k \in 1..Len(phrase) : SameLetter(s[p + k - 1], phrase[k])

\* the occurrence has a word character right before or right behind it
Flanked(phrase, s, p) ==
    \/ p > 1 /\ IsWordChar(s[p - 1])
    \/ p + Len(phrase) <= Len(s) /\ IsWordChar(s[p + Len(phrase)])

\* a case-insensitive whole-word occurrence
WholeWordOccurrence(phrase, s, p) ==
    RawOccurrence(phrase, s, p) /\ ~Flanked(phrase, s, p)

ContainsPhraseOf(table, s) ==
    \E n \in 1..Len(table), p \in 1..Len(s) : WholeWordOccurrence(table[n][1], s, p)

\* the occurrence of entry n at p is not overlapped by one of an earlier entry
\* (an occurrence at q overlaps it iff q lies in the range below)
LiveOccurrence(table, n, s, p) ==
    /\ WholeWordOccurrence(table[n][1], s, p)
    /\ \A m \in 1..(n - 1) :
          \A q \in (p - Len(table[m][1]) + 1)..(p + Len(table[n][1]) - 1) :
              ~WholeWordOccurrence(table[m][1], s, q)

\* the occurrences a replacement takes: the live ones, or all of them
Chosen(table, n, s, p, liveOnly) ==
    IF liveOnly THEN LiveOccurrence(table, n, s, p)
    ELSE WholeWordOccurrence(table[n][1], s, p)

\* s with every chosen occurrence replaced and every other character copied
RECURSIVE ReplaceChosen(_, _, _, _)
ReplaceChosen(table, s, p, liveOnly) ==
    IF p > Len(s) THEN <<>>
    ELSE IF \E n \in 1..Len(table) : Chosen(table, n, s, p, liveOnly)
         THEN LET n == CHOOSE m \in 1..Len(table) : Chosen(table, m, s, p, liveOnly)
              IN  table[n][2] \o ReplaceChosen(table, s, p + Len(table[n][1]), liveOnly)
         ELSE <<s[p]>> \o ReplaceChosen(table, s, p + 1, liveOnly)

AllReplaced(table, s) == ReplaceChosen(table, s, 1, FALSE)

LiveReplaced(table, s) == ReplaceChosen(table, s, 1, TRUE)

Folds == op \in {"apply_contractions", "humanize_text"}

\* the phrases the invoked operation looks for
TableOf(name) ==
    CASE name = "apply_contractions" -> contractions
      [] name = "apply_idioms" -> idioms
      [] OTHER -> contractions \o idioms

\* the invoked operation applied to another text
Apply(name, s) ==
    CASE name = "apply_contractions" -> apply_contractions(s, contractions)
      [] name = "apply_idioms" -> apply_idioms(s, idioms)
      [] OTHER -> humanize_text(s)

(***************************************************************************)
(* C1 (as stated): after apply_contractions or humanize_text returns, the  *)
(* output holds no whole-word occurrence of a contraction key, and EVERY   *)
(* occurrence of the input has been replaced by its contracted form, the   *)
(* rest of the text being unchanged.                                       *)
(***************************************************************************)
C1_EveryOccurrenceContracted ==
    /\ Folds => ~ContainsPhraseOf(contractions, out)
    /\ op = "apply_contractions" => out = AllReplaced(contractions, arg)
    /\ op = "humanize_text" => out = apply_idioms(AllReplaced(contractions, arg), idioms)

(***************************************************************************)
(* C1 (amended): after apply_contractions or humanize_text returns, the    *)
(* output holds no whole-word occurrence of a contraction key; every       *)
(* occurrence of the input that is not overlapped by an occurrence of an   *)
(* earlier table entry has been replaced by its contracted form, and the   *)
(* text outside the replaced occurrences is unchanged by the contraction   *)
(* entries.                                                                *)
(***************************************************************************)
C1_NoFormalPhraseRemains ==
    /\ Folds => ~ContainsPhraseOf(contractions, out)
    /\ op = "apply_contractions" => out = LiveReplaced(contractions, arg)
    /\ op = "humanize_text" => out = apply_idioms(LiveReplaced(contractions, arg), idioms)

\* apply_contractions has folded a text in which two occurrences overlap
C1_Witness ==
    /\ op = "apply_contractions"
    /\ \E n \in 1..Len(contractions), p \in 1..Len(arg) :
          /\ WholeWordOccurrence(contractions[n][1], arg, p)
          /\ ~LiveOccurrence(contractions, n, arg, p)
    /\ out # arg

(***************************************************************************)
(* C2: a table phrase that is immediately preceded or followed by an       *)
(* alphanumeric or underscore character is not replaced: a text whose      *)
(* occurrences of the operation's phrases are all of that kind comes back  *)
(* unchanged from apply_contractions, apply_idioms and humanize_text.      *)
(***************************************************************************)
C2_OnlyAtPhraseBoundaries ==
    (op # "none" /\ ~ContainsPhraseOf(TableOf(op), arg)) => out = arg

\* an operation has returned a text holding a phrase inside a longer word
C2_Witness ==
    /\ op # "none"
    /\ ~ContainsPhraseOf(TableOf(op), arg)
    /\ \E n \in 1..Len(TableOf(op)), p \in 1..Len(arg) :
          /\ RawOccurrence(TableOf(op)[n][1], arg, p)
          /\ Flanked(TableOf(op)[n][1], arg, p)

(***************************************************************************)
(* C3 (as stated): matching is case-insensitive: changing the letter case  *)
(* of ANY occurrences of table phrases in the input (all to upper case, or *)
(* all to lower case) does not change what the operation returns.          *)
(***************************************************************************)
\* the positions of s inside an occurrence of a phrase of the table
Covered(table, s, liveOnly) ==
    UNION { IF Chosen(table, n, s, p, liveOnly)
            THEN p..(p + Len(table[n][1]) - 1) ELSE {} :
            n \in 1..Len(table), p \in 1..Len(s) }

\* s with the letters at the given positions in upper case
UpperCased(s, at) ==
    [i \in 1..Len(s) |->
        IF s[i] \in LowerLetters /\ i \in at THEN ToUpper[s[i]] ELSE s[i]]

\* s with the letters at the given positions in lower case
LowerCased(s, at) ==
    [i \in 1..Len(s) |->
        IF s[i] \in UpperLetters /\ i \in at THEN ToLower[s[i]] ELSE s[i]]

C3_AnyOccurrenceRecased ==
    op # "none" =>
        LET at == Covered(TableOf(op), arg, FALSE)
        IN  /\ Apply(op, UpperCased(arg, at)) = out
            /\ Apply(op, LowerCased(arg, at)) = out

(***************************************************************************)
(* C3 (amended): matching is case-insensitive: changing the letter case of *)
(* the occurrences of table phrases that are not overlapped by an          *)
(* occurrence of an earlier table entry (all to upper case, or all to      *)
(* lower case) does not change what the operation returns.                 *)
(***************************************************************************)
C3_CaseInsensitive ==
    op # "none" =>
        LET at == Covered(TableOf(op), arg, TRUE)
        IN  /\ Apply(op, UpperCased(arg, at)) = out
            /\ Apply(op, LowerCased(arg, at)) = out

\* an occurrence spelled in another case than the table's has been replaced
C3_Witness ==
    /\ op # "none"
    /\ out # arg
    /\ LET at == Covered(TableOf(op), arg, TRUE)
       IN  /\ UpperCased(arg, at) # arg
           /\ LowerCased(arg, at) # arg

(***************************************************************************)
(* C4: contraction folding is idempotent: applying apply_contractions to   *)
(* its own output, or humanize_text to its own output, changes nothing,    *)
(* and no phrase of the tables the operation applies occurs in its output. *)
(***************************************************************************)
C4_Idempotent ==
    Folds =>
        /\ Apply(op, out) = out
        /\ ~ContainsPhraseOf(TableOf(op), out)

\* the first application did change the text
C4_Witness == Folds /\ out # arg /\ Apply(op, out) = out

(***************************************************************************)
(* C6: contraction folding and idiom substitution commute:                 *)
(* apply_idioms(apply_contractions(s)) = apply_contractions(apply_idioms(s)) *)
(* for every input s, each with its fixed table.                           *)
(***************************************************************************)
C6_ContractionsIdiomsCommute ==
    /\ op = "apply_contractions"
          => apply_idioms(out, idioms)
               = apply_contractions(apply_idioms(arg, idioms), contractions)
    /\ op = "apply_idioms"
          => apply_contractions(out, contractions)
               = apply_idioms(apply_contractions(arg, contractions), idioms)

\* both operations have something to replace in the text
C6_Witness ==
    /\ op = "apply_contractions"
    /\ out # arg
    /\ apply_idioms(out, idioms) # out

(***************************************************************************)
(* C9: humanize_text applied to the documentation's example text returns   *)
(* "I can't believe that you aren't coming. on top of that, the team       *)
(* completed the task.": 'are not' wins over 'you are', and the            *)
(* replacement is inserted in its table spelling.                          *)
(***************************************************************************)
C9_EndToEndExample ==
    (op = "humanize_text" /\ arg = ExampleText) => out = ExampleHumanized

\* humanize_text has returned for the example text
C9_Witness == op = "humanize_text" /\ arg = ExampleText /\ out # arg

(***************************************************************************)
(* Specification SpecSteps: one humanize_text call, statement by           *)
(* statement.  The argument may be any Python value, so a value is a       *)
(* record here: its type and, for a str, its characters (for another type  *)
(* the characters of its repr).                                            *)
(*                                                                         *)
(* pc: "idle" -> "contractions" -> "idioms" -> "log" -> "done"; the except *)
(* branch leads from any position inside the try block to "done".          *)
(***************************************************************************)
PyStr(s) == [type |-> "str", value |-> s]

PyNone == [type |-> "NoneType", value |-> <<"N","o","n","e">>]

PyInt(digits) == [type |-> "int", value |-> digits]

NonStrings == {PyNone, PyInt(<<"4","2">>)}

StepInputs ==
    { PyStr(Concat(ps)) : ps \in UNION { [1..n -> Pieces] : n \in 0..MaxStepPieces } }
        \cup NonStrings

StepInit ==
    /\ arg \in StepInputs
    /\ op = "none"
    /\ out = PyNone
    /\ pc = "idle"
    /\ text = PyNone
    /\ idx = 0
    /\ faulted = FALSE
    /\ order = TableOrder
    /\ target_voice = "none"
    /\ sentences = <<>>
    /\ transformed = <<>>
    /\ self_contractions = contractions
    /\ self_idioms = idioms
    /\ calls = <<>>

\* def humanize_text(self, text): the parameter is bound, the try block entered
HumanizeEnter ==
    /\ pc = "idle"
    /\ op' = "humanize_text"
    /\ text' = arg
    /\ idx' = 0
    /\ pc' = "contractions"
    /\ UNCHANGED <<arg, out, faulted, order, voiceVars, tables, calls>>

\* one iteration of a substitution loop: text = re.sub(..., text, ...)
LoopStep(table, here, next) ==
    /\ pc = here
    /\ text.type = "str"
    /\ text' = PyStr(re_sub(table[idx + 1][1], table[idx + 1][2], text.value))
    /\ IF idx + 1 < Len(table)
       THEN idx' = idx + 1 /\ pc' = here
       ELSE idx' = 0 /\ pc' = next
    /\ UNCHANGED <<arg, op, out, faulted, order, voiceVars, tables, calls>>

ContractionStep == LoopStep(self_contractions, "contractions", "idioms")

IdiomStep == LoopStep(self_idioms, "idioms", "log")

\* logger.info(...); return text
LogAndReturn ==
    /\ pc = "log"
    /\ out' = text
    /\ pc' = "done"
    /\ UNCHANGED <<arg, op, text, idx, faulted, order, voiceVars, tables,
                   calls>>

\* except Exception as e: logger.error(...); return text
ExceptReturn ==
    /\ faulted' = TRUE
    /\ out' = text
    /\ pc' = "done"
    /\ UNCHANGED <<arg, op, text, idx, order, voiceVars, tables, calls>>

\* re.sub raises TypeError when its string argument is not a str
SubTypeError ==
    /\ pc \in {"contractions", "idioms"}
    /\ text.type # "str"
    /\ ExceptReturn

\* any other fault raised inside the try block: by a re.sub call or by the
\* logger.info call (a logging filter that raises, MemoryError, ...)
InternalFault ==
    /\ pc \in {"contractions", "idioms", "log"}
    /\ text.type = "str"
    /\ ExceptReturn

StepNext ==
    \/ HumanizeEnter
    \/ ContractionStep
    \/ IdiomStep
    \/ LogAndReturn
    \/ SubTypeError
    \/ InternalFault

SpecSteps == StepInit /\ [][StepNext]_vars

(***************************************************************************)
(* C7: if a fault is raised at any point inside humanize_text, the call    *)
(* returns exactly the text the caller passed in, with none of the         *)
(* substitutions applied.                                                  *)
(***************************************************************************)
C7_FaultReturnsOriginal == (pc = "done" /\ faulted) => out = arg

(***************************************************************************)
(* C8: humanize_text called with a non-string or null value returns a      *)
(* value that is a string.                                                 *)
(***************************************************************************)
C8_AlwaysReturnsString == pc = "done" => out.type = "str"

(***************************************************************************)
(* Specification SpecOrder: apply_contractions takes the table as an       *)
(* argument; the caller passes a dict holding the entries of the fixed     *)
(* table in another insertion order.  The orders tried move one entry to   *)
(* the front (which inverts it with every entry ahead of it) or reverse    *)
(* the table.                                                              *)
(***************************************************************************)
MoveToFront(j) ==
    [i \in 1..Len(contractions) |-> IF i = 1 THEN j ELSE IF i <= j THEN i - 1 ELSE i]

Reversed == [i \in 1..Len(contractions) |-> Len(contractions) + 1 - i]

Orders == { MoveToFront(j) : j \in 1..Len(contractions) } \cup {Reversed}

\* the dict with the entries inserted in the given order
Permuted(table, ord) == [i \in 1..Len(table) |-> table[ord[i]]]

OrderPieces ==
    { <<"y","o","u"," ","a","r","e">>,
      <<"t","h","e","y"," ","a","r","e">>,
      <<"a","r","e">>,
      <<" ","n","o","t">>,
      <<"d","o">>,
      <<"c","a","n","n","o","t"," ">>,
      <<"I"," ","a","m">>,
      <<" ">> }

OrderInputs ==
    { Concat(ps) : ps \in UNION { [1..n -> OrderPieces] : n \in 0..MaxOrderPieces } }

OrderInit ==
    /\ arg \in OrderInputs
    /\ order \in Orders
    /\ op = "none"
    /\ out = <<>>
    /\ pc = "idle"
    /\ text = <<>>
    /\ idx = 0
    /\ faulted = FALSE
    /\ target_voice = "none"
    /\ sentences = <<>>
    /\ transformed = <<>>
    /\ self_contractions = contractions
    /\ self_idioms = idioms
    /\ calls = <<>>

CallApplyContractionsOrdered ==
    Returns("apply_contractions", apply_contractions(arg, Permuted(contractions, order)))

OrderNext == CallApplyContractionsOrdered

SpecOrder == OrderInit /\ [][OrderNext]_vars

\* no occurrence of a contraction phrase in s overlaps one of another entry
NoOverlappingOccurrences(s) ==
    \A n \in 1..Len(contractions), p \in 1..Len(s) :
        WholeWordOccurrence(contractions[n][1], s, p)
            => LiveOccurrence(contractions, n, s, p)

(***************************************************************************)
(* C5 (as stated): the order in which the contraction entries are applied  *)
(* does not change the result, for EVERY input string.                     *)
(***************************************************************************)
C5_AnyOrderSameResult ==
    op = "apply_contractions" => out = apply_contractions(arg, contractions)

(***************************************************************************)
(* C5 (amended): the order in which the contraction entries are applied    *)
(* does not change the result for every input string in which no           *)
(* occurrence of one table phrase overlaps an occurrence of another.       *)
(***************************************************************************)
C5_OrderIrrelevantWithoutOverlap ==
    (op = "apply_contractions" /\ NoOverlappingOccurrences(arg))
        => out = apply_contractions(arg, contractions)

\* two different entries have been applied, in the order opposite to the table's
C5_Witness ==
    /\ op = "apply_contractions"
    /\ NoOverlappingOccurrences(arg)
    /\ \E m, n \in 1..Len(contractions) :
          /\ m < n
          /\ \E i, j \in 1..Len(order) : i < j /\ order[i] = n /\ order[j] = m
          /\ \E p \in 1..Len(arg) : WholeWordOccurrence(contractions[m][1], arg, p)
          /\ \E p \in 1..Len(arg) : WholeWordOccurrence(contractions[n][1], arg, p)
    /\ out # arg

(***************************************************************************)
(* transform_voice: text.split('. '), re.match on every sentence,          *)
(* '. '.join(transformed).                                                 *)
(***************************************************************************)
\* \s : whitespace
SpaceChars == {" ", "\t", "\n", "\r", "\f"}

\* the separator of split and join
Separator == <<".", " ">>

\* sep occurs in s at position p
SeparatorAt(s, p) ==
    /\ p + Len(Separator) - 1 <= Len(s)
    /\ \A k \in 1..Len(Separator) : s[p + k - 1] = Separator[k]

\* text.split('. ') from position p on: cut at the leftmost separator, go on
\* behind it; the remainder (possibly empty) is the last element
RECURSIVE str_split(_, _)
str_split(s, p) ==
    IF \E q \in p..Len(s) : SeparatorAt(s, q)
    THEN LET q == CHOOSE q \in p..Len(s) :
                      /\ SeparatorAt(s, q)
                      /\ \A r \in p..(q - 1) : ~SeparatorAt(s, r)
         IN  <<SubSeq(s, p, q - 1)>> \o str_split(s, q + Len(Separator))
    ELSE <<SubSeq(s, p, Len(s))>>

\* ('.'.join(parts): the separator without its blank)
RECURSIVE str_join_dot(_)
str_join_dot(parts) ==
    IF parts = <<>> THEN <<>>
    ELSE IF Len(parts) = 1 THEN parts[1]
    ELSE parts[1] \o <<".">> \o str_join_dot(Tail(parts))

\* '. '.join(parts)
RECURSIVE str_join(_)
str_join(parts) ==
    IF parts = <<>> THEN <<>>
    ELSE IF Len(parts) = 1 THEN parts[1]
    ELSE parts[1] \o Separator \o str_join(Tail(parts))

\* A pattern is a sequence of elements: a greedy repetition C+ of a
\* character class, or a literal string.
Plus(class) == [kind |-> "plus", class |-> class, chars |-> <<>>]

Literal(chars) == [kind |-> "lit", class |-> {}, chars |-> chars]

\* r'(\w+)\s+([\w\s]+)\s+(\w+)' : groups 1, 2, 3 are elements 1, 3, 5
PassivePattern ==
    << Plus(WordChars), Plus(SpaceChars), Plus(WordChars \cup SpaceChars),
       Plus(SpaceChars), Plus(WordChars) >>

\* r'(\w+)\s+was\s+(\w+)\s+by\s+(\w+)' : groups 1, 2, 3 are elements 1, 5, 9
ActivePattern ==
    << Plus(WordChars), Plus(SpaceChars), Literal(<<"w","a","s">>),
       Plus(SpaceChars), Plus(WordChars), Plus(SpaceChars),
       Literal(<<"b","y">>), Plus(SpaceChars), Plus(WordChars) >>

\* last position of the run of class characters starting at k (k - 1 if none)
RECURSIVE RunEnd(_, _, _)
RunEnd(s, k, class) ==
    IF k <= Len(s) /\ s[k] \in class THEN RunEnd(s, k + 1, class) ELSE k - 1

LiteralAt(chars, s, k) ==
    /\ k + Len(chars) - 1 <= Len(s)
    /\ \A j \in 1..Len(chars) : s[k + j - 1] = chars[j]

\* elements i.. of the pattern can match s from position k on
RECURSIVE CanMatch(_, _, _, _)
CanMatch(pat, i, s, k) ==
    IF i > Len(pat) THEN TRUE
    ELSE IF pat[i].kind = "lit"
         THEN LiteralAt(pat[i].chars, s, k)
                 /\ CanMatch(pat, i + 1, s, k + Len(pat[i].chars))
         ELSE \E e \in k..RunEnd(s, k, pat[i].class) : CanMatch(pat, i + 1, s, e + 1)

\* (a lazy repetition takes the shortest run that lets the rest match)
RECURSIVE MatchEndsLazy(_, _, _, _)
MatchEndsLazy(pat, i, s, k) ==
    IF i > Len(pat) THEN <<>>
    ELSE IF pat[i].kind = "lit"
         THEN <<k + Len(pat[i].chars) - 1>>
                 \o MatchEndsLazy(pat, i + 1, s, k + Len(pat[i].chars))
         ELSE LET ends == { e \in k..RunEnd(s, k, pat[i].class) :
                               CanMatch(pat, i + 1, s, e + 1) }
                  e == CHOOSE x \in ends : \A y \in ends : y >= x
              IN  <<e>> \o MatchEndsLazy(pat, i + 1, s, e + 1)

\* the end position of every element in the match the backtracking search
\* finds first: a greedy repetition takes the longest run that lets the rest
\* of the pattern match
RECURSIVE MatchEnds(_, _, _, _)
MatchEnds(pat, i, s, k) ==
    IF i > Len(pat) THEN <<>>
    ELSE IF pat[i].kind = "lit"
         THEN <<k + Len(pat[i].chars) - 1>>
                 \o MatchEnds(pat, i + 1, s, k + Len(pat[i].chars))
         ELSE LET ends == { e \in k..RunEnd(s, k, pat[i].class) :
                               CanMatch(pat, i + 1, s, e + 1) }
                  e == CHOOSE x \in ends : \A y \in ends : y <= x
              IN  <<e>> \o MatchEnds(pat, i + 1, s, e + 1)

\* re.match(pattern, s): anchored at the start of s; <<>> stands for None
re_match(pat, s) == IF CanMatch(pat, 1, s, 1) THEN MatchEnds(pat, 1, s, 1) ELSE <<>>

\* the text matched by element i
Group(s, ends, i) == SubSeq(s, IF i = 1 THEN 1 ELSE ends[i - 1] + 1, ends[i])

\* the passive branch of the loop body
PassiveRewrite(sentence) ==
    LET m == re_match(PassivePattern, sentence)
    IN  IF m # <<>>
        THEN Group(sentence, m, 5) \o <<" ","w","a","s"," ">> \o Group(sentence, m, 3)
                \o <<" ","b","y"," ">> \o Group(sentence, m, 1)
        ELSE sentence

\* the else branch of the loop body
ActiveRewrite(sentence) ==
    LET m == re_match(ActivePattern, sentence)
    IN  IF m # <<>>
        THEN Group(sentence, m, 9) \o <<" ">> \o Group(sentence, m, 5)
                \o <<" ">> \o Group(sentence, m, 1)
        ELSE sentence

\* the loop body: what is appended to `transformed` for one sentence
Rewrite(sentence, voice) ==
    IF voice = "passive" THEN PassiveRewrite(sentence) ELSE ActiveRewrite(sentence)

\* the whole call
transform_voice(s, voice) ==
    LET parts == str_split(s, 1)
    IN  str_join([i \in 1..Len(parts) |-> Rewrite(parts[i], voice)])

(***************************************************************************)
(* Specification SpecVoice: one transform_voice call, one loop iteration   *)
(* per step.  pc: "idle" -> "loop" -> "done".                              *)
(***************************************************************************)
VoicePieces ==
    { <<"a">>,
      <<"b"," ","c">>,
      <<"d"," ","w","a","s"," ","e">>,
      <<" ","b","y"," ">>,
      <<" ">>,
      <<"\n">>,
      <<".", " ">>,
      <<".">>,
      <<",">> }

\* the two texts of the documentation's voice example
DogChasedCat ==
    <<"T","h","e"," ","d","o","g"," ","c","h","a","s","e","d"," ","t","h",
      "e"," ","c","a","t">>

CatWasChasedByDog ==
    <<"T","h","e"," ","c","a","t"," ","w","a","s"," ","c","h","a","s","e",
      "d"," ","b","y"," ","t","h","e"," ","d","o","g">>

VoiceInputs ==
    { Concat(ps) : ps \in UNION { [1..n -> VoicePieces] : n \in 0..MaxVoicePieces } }
        \cup {DogChasedCat, CatWasChasedByDog}

TargetVoices == {"passive", "active", "imperative"}

VoiceInit ==
    /\ arg \in VoiceInputs
    /\ target_voice \in TargetVoices
    /\ op = "none"
    /\ out = <<>>
    /\ pc = "idle"
    /\ text = <<>>
    /\ idx = 0
    /\ faulted = FALSE
    /\ order = TableOrder
    /\ sentences = <<>>
    /\ transformed = <<>>
    /\ self_contractions = contractions
    /\ self_idioms = idioms
    /\ calls = <<>>

\* sentences = text.split('. '); transformed = []
TransformVoiceEnter ==
    /\ pc = "idle"
    /\ op' = "transform_voice"
    /\ sentences' = str_split(arg, 1)
    /\ transformed' = <<>>
    /\ pc' = "loop"
    /\ UNCHANGED <<arg, out, text, idx, faulted, order, target_voice,
                   tables, calls>>

\* one iteration of `for sentence in sentences`
TransformVoiceStep ==
    /\ pc = "loop"
    /\ Len(transformed) < Len(sentences)
    /\ transformed' =
           Append(transformed, Rewrite(sentences[Len(transformed) + 1], target_voice))
    /\ UNCHANGED <<arg, op, out, pc, text, idx, faulted, order,
                   target_voice, sentences, tables, calls>>

\* return '. '.join(transformed)
TransformVoiceReturn ==
    /\ pc = "loop"
    /\ Len(transformed) = Len(sentences)
    /\ out' = str_join(transformed)
    /\ pc' = "done"
    /\ UNCHANGED <<arg, op, text, idx, faulted, order, voiceVars, tables,
                   calls>>

VoiceNext ==
    \/ TransformVoiceEnter
    \/ TransformVoiceStep
    \/ TransformVoiceReturn

SpecVoice == VoiceInit /\ [][VoiceNext]_vars

(***************************************************************************)
(* Vocabulary of the voice properties: the words of a chunk, found without *)
(* the pattern matcher.                                                    *)
(***************************************************************************)
\* end of the chunk's leading run of words and whitespace
LeadingRunEnd(c) ==
    IF \E p \in 1..Len(c) : c[p] \notin WordChars \cup SpaceChars
    THEN (CHOOSE p \in 1..Len(c) :
             /\ c[p] \notin WordChars \cup SpaceChars
             /\ \A q \in 1..(p - 1) : c[q] \in WordChars \cup SpaceChars) - 1
    ELSE Len(c)

\* first and last positions of the words inside the leading run
WordStarts(c) ==
    { p \in 1..LeadingRunEnd(c) : IsWordChar(c[p]) /\ (p = 1 \/ ~IsWordChar(c[p - 1])) }

WordEnds(c) ==
    { p \in 1..LeadingRunEnd(c) :
        IsWordChar(c[p]) /\ (p = LeadingRunEnd(c) \/ ~IsWordChar(c[p + 1])) }

Least(S) == CHOOSE x \in S : \A y \in S : x <= y

Greatest(S) == CHOOSE x \in S : \A y \in S : y <= x

\* the chunk begins with a word, one or more middle words and a trailing word
HasThreeWords(c) == c # <<>> /\ IsWordChar(c[1]) /\ Cardinality(WordStarts(c)) >= 3

FirstWord(c) == SubSeq(c, 1, Least(WordEnds(c)))

LastWord(c) == SubSeq(c, Greatest(WordStarts(c)), Greatest(WordEnds(c)))

\* everything between the first and the last word
Between(c) == SubSeq(c, Least(WordEnds(c)) + 1, Greatest(WordStarts(c)) - 1)

\* s without its leading and trailing whitespace
RECURSIVE Strip(_)
Strip(s) ==
    IF s = <<>> THEN s
    ELSE IF s[1] \in SpaceChars THEN Strip(Tail(s))
    ELSE IF s[Len(s)] \in SpaceChars THEN Strip(SubSeq(s, 1, Len(s) - 1))
    ELSE s

StartsWith(s, prefix) ==
    Len(prefix) <= Len(s) /\ SubSeq(s, 1, Len(prefix)) = prefix

EndsWith(s, suffix) ==
    Len(suffix) <= Len(s) /\ SubSeq(s, Len(s) - Len(suffix) + 1, Len(s)) = suffix

\* t is '<object> was <verb-phrase> by <subject>' for the words of c
IsPassiveForm(c, t) ==
    LET front == LastWord(c) \o <<" ","w","a","s"," ">>
        back == <<" ","b","y"," ">> \o FirstWord(c)
    IN  /\ Len(front) + Len(back) <= Len(t)
        /\ StartsWith(t, front)
        /\ EndsWith(t, back)
        /\ Strip(SubSeq(t, Len(front) + 1, Len(t) - Len(back))) = Strip(Between(c))

(***************************************************************************)
(* C10: transform_voice(text, 'passive') rewrites every chunk that begins  *)
(* with a word, a run of one or more middle words and a trailing word into *)
(* '<object> was <verb-phrase> by <subject>': subject is the chunk's first *)
(* word, object the last word of the run, verb-phrase everything between.  *)
(***************************************************************************)
C10_PassiveRewritesThreeWordChunks ==
    target_voice = "passive" =>
        \A i \in 1..Len(transformed) :
            HasThreeWords(sentences[i]) => IsPassiveForm(sentences[i], transformed[i])

\* a chunk of four words followed by more text has been rewritten
C10_Witness ==
    /\ target_voice = "passive"
    /\ pc = "done"
    /\ \E i \in 1..Len(transformed) :
          /\ HasThreeWords(sentences[i])
          /\ Cardinality(WordStarts(sentences[i])) >= 4
          /\ LeadingRunEnd(sentences[i]) < Len(sentences[i])
          /\ transformed[i] # sentences[i]

(***************************************************************************)
(* C11: transform_voice("The dog chased the cat", "passive") returns       *)
(* "The cat was chased by the dog": subject and object, each an article    *)
(* plus a noun, are moved as units.                                        *)
(***************************************************************************)
C11_PassiveExample ==
    (pc = "done" /\ target_voice = "passive" /\ arg = DogChasedCat)
        => out = CatWasChasedByDog

(***************************************************************************)
(* C12: transform_voice("The cat was chased by the dog", "active") returns *)
(* "The dog chased the cat": the passive-shaped chunk is recognised and    *)
(* rewritten to active voice.                                              *)
(***************************************************************************)
C12_ActiveExample ==
    (pc = "done" /\ target_voice = "active" /\ arg = CatWasChasedByDog)
        => out = DogChasedCat

(***************************************************************************)
(* C13: for a target_voice outside {'active', 'passive'} transform_voice   *)
(* returns the input text unchanged.                                       *)
(***************************************************************************)
C13_InvalidTargetUnchanged ==
    (pc = "done" /\ target_voice \notin {"active", "passive"}) => out = arg

(***************************************************************************)
(* C14: transform_voice keeps the number and the order of the chunks and   *)
(* leaves every chunk that does not match the voice pattern unchanged in   *)
(* place; a text in which no chunk matches is returned identical to the    *)
(* input.  The voice pattern is the one the loop body applies for the      *)
(* target voice.                                                           *)
(***************************************************************************)
MatchesVoicePattern(sentence, voice) ==
    CanMatch(IF voice = "passive" THEN PassivePattern ELSE ActivePattern, 1, sentence, 1)

Contains(s, sub) ==
    \E p \in 1..(Len(s) - Len(sub) + 1) : SubSeq(s, p, p + Len(sub) - 1) = sub

\* the text of the chunk behind the portion re.match matched
AfterMatch(sentence, voice) ==
    LET m == re_match(IF voice = "passive" THEN PassivePattern ELSE ActivePattern,
                      sentence)
    IN  SubSeq(sentence, m[Len(m)] + 1, Len(sentence))

C15_UnmatchedTextKept ==
    \A i \in 1..Len(transformed) :
        MatchesVoicePattern(sentences[i], target_voice) =>
            Contains(transformed[i], AfterMatch(sentences[i], target_voice))

(***************************************************************************)
(* C20: transform_voice(text, 'active') recognises a chunk of the shape    *)
(* '<object> was <verb-phrase> by <subject>' whose verb phrase is one or   *)
(* more words, and rewrites it to '<subject> <verb-phrase> <object>' with  *)
(* the whole verb phrase.                                                  *)
(***************************************************************************)
\* the passive shape with a verb phrase of one or more words; object, verb
\* phrase and subject are elements 1, 5, 9
PassiveShape ==
    << Plus(WordChars), Plus(SpaceChars), Literal(<<"w","a","s">>),
       Plus(SpaceChars), Plus(WordChars \cup SpaceChars), Plus(SpaceChars),
       Literal(<<"b","y">>), Plus(SpaceChars), Plus(WordChars) >>

\* the whole chunk has the passive shape
IsPassiveShaped(c) ==
    /\ CanMatch(PassiveShape, 1, c, 1)
    /\ MatchEnds(PassiveShape, 1, c, 1)[Len(PassiveShape)] = Len(c)

\* '<subject> <verb-phrase> <object>' for the words of c, the verb phrase
\* without the whitespace around it
ActiveForm(c) ==
    LET m == MatchEnds(PassiveShape, 1, c, 1)
    IN  Group(c, m, 9) \o <<" ">> \o Strip(Group(c, m, 5)) \o <<" ">> \o Group(c, m, 1)

C20_ActiveKeepsVerbPhrase ==
    target_voice = "active" =>
        \A i \in 1..Len(transformed) :
            IsPassiveShaped(sentences[i]) => transformed[i] = ActiveForm(sentences[i])

(***************************************************************************)
(* Specification SpecVoiceCall: one transform_voice call whose arguments   *)
(* may be any Python value (records as in SpecSteps).  The method has no   *)
(* try block, so an exception raised inside it leaves the call.            *)
(*                                                                         *)
(* pc: "idle" -> "loop" -> "done", or "idle" -> "raised".                  *)
(***************************************************************************)
VoiceCallTexts ==
    { PyStr(Concat(ps)) : ps \in UNION { [1..n -> VoicePieces] : n \in 0..MaxCallPieces } }
        \cup NonStrings

VoiceCallTargets ==
    { PyStr(<<"p","a","s","s","i","v","e">>), PyStr(<<"a","c","t","i","v","e">>),
      PyStr(<<>>), PyNone }

\* target_voice == 'passive', for any value of target_voice
BranchOf(voice) ==
    IF voice = PyStr(<<"p","a","s","s","i","v","e">>) THEN "passive" ELSE "active"

VoiceCallInit ==
    /\ arg \in VoiceCallTexts
    /\ target_voice \in VoiceCallTargets
    /\ op = "none"
    /\ out = PyNone
    /\ pc = "idle"
    /\ text = PyNone
    /\ idx = 0
    /\ faulted = FALSE
    /\ order = TableOrder
    /\ sentences = <<>>
    /\ transformed = <<>>
    /\ self_contractions = contractions
    /\ self_idioms = idioms
    /\ calls = <<>>

\* sentences = text.split('. ') on a str; transformed = []
VoiceCallSplit ==
    /\ pc = "idle"
    /\ arg.type = "str"
    /\ op' = "transform_voice"
    /\ sentences' = str_split(arg.value, 1)
    /\ transformed' = <<>>
    /\ pc' = "loop"
    /\ UNCHANGED <<arg, out, text, idx, faulted, order, target_voice,
                   tables, calls>>

\* text.split on a value without a split attribute raises AttributeError,
\* which nothing in the method catches
VoiceCallAttributeError ==
    /\ pc = "idle"
    /\ arg.type # "str"
    /\ op' = "transform_voice"
    /\ faulted' = TRUE
    /\ pc' = "raised"
    /\ UNCHANGED <<arg, out, text, idx, order, voiceVars, tables, calls>>

\* one iteration of `for sentence in sentences`
VoiceCallStep ==
    /\ pc = "loop"
    /\ Len(transformed) < Len(sentences)
    /\ transformed' =
           Append(transformed,
                  Rewrite(sentences[Len(transformed) + 1], BranchOf(target_voice)))
    /\ UNCHANGED <<arg, op, out, pc, text, idx, faulted, order,
                   target_voice, sentences, tables, calls>>

\* return '. '.join(transformed)
VoiceCallReturn ==
    /\ pc = "loop"
    /\ Len(transformed) = Len(sentences)
    /\ out' = PyStr(str_join(transformed))
    /\ pc' = "done"
    /\ UNCHANGED <<arg, op, text, idx, faulted, order, voiceVars, tables,
                   calls>>

VoiceCallNext ==
    \/ VoiceCallSplit
    \/ VoiceCallAttributeError
    \/ VoiceCallStep
    \/ VoiceCallReturn

SpecVoiceCall == VoiceCallInit /\ [][VoiceCallNext]_vars

(***************************************************************************)
(* C16: transform_voice never lets a fault reach the caller and always     *)
(* returns a string, for every text argument (a non-string or null text    *)
(* included) and every target_voice argument.                              *)
(***************************************************************************)
C16_NeverRaisesReturnsString ==
    /\ pc # "raised"
    /\ pc = "done" => out.type = "str"

(***************************************************************************)
(* C19: the three copies of the engine are equivalent: for every string    *)
(* input, humanize_text of src/tools.py, humanize_text of                  *)
(* src/core/tools.py and apply_idioms(apply_contractions(text,             *)
(* self.contractions), self.idioms) of src/human.py return the same        *)
(* output; the three pairs of tables hold the same entries in the same     *)
(* order.                                                                  *)
(***************************************************************************)
C19_ThreeCopiesAgree ==
    op = "humanize_text" =>
        /\ out = core_humanize_text(arg)
        /\ out = human_humanize(arg)
        /\ core_contractions = contractions /\ human_contractions = contractions
        /\ core_idioms = idioms /\ human_idioms = idioms

\* a text that both loops change has been through all three copies
C19_Witness ==
    /\ op = "humanize_text"
    /\ arg = ExampleText
    /\ out = ExampleHumanized
    /\ core_humanize_text(arg) = out
    /\ human_humanize(arg) = out

(***************************************************************************)
(* Specification SpecEngine: one engine object serving call after call.    *)
(* Every call reads the engine's tables through the attributes             *)
(* self.contractions and self.idioms; arg, op and out describe the latest  *)
(* call.                                                                   *)
(***************************************************************************)
EngineInputs ==
    Pieces \cup VoicePieces \cup {<<>>, ExampleText, DogChasedCat, CatWasChasedByDog}

EngineInit ==
    /\ arg = <<>>
    /\ op = "none"
    /\ out = <<>>
    /\ pc = "idle"
    /\ text = <<>>
    /\ idx = 0
    /\ faulted = FALSE
    /\ order = TableOrder
    /\ target_voice = "none"
    /\ sentences = <<>>
    /\ transformed = <<>>
    /\ self_contractions = contractions
    /\ self_idioms = idioms
    /\ calls = <<>>

\* a call of operation `name` with text t has returned `value`
EngineReturns(name, t, value) ==
    /\ arg' = t
    /\ op' = name
    /\ out' = value
    /\ UNCHANGED <<pc, text, idx, faulted, order, sentences, transformed, calls>>

\* (a loop that takes the entries out of the dict with popitem() as it goes)
EngineHumanizeTextDraining ==
    \E t \in EngineInputs :
        /\ EngineReturns("humanize_text", t, humanize_text(t))
        /\ self_contractions' = <<>>
        /\ self_idioms' = <<>>
        /\ UNCHANGED target_voice

\* humanize_text(t): iterates self.contractions.items() and self.idioms.items()
EngineHumanizeText ==
    \E t \in EngineInputs :
        /\ EngineReturns("humanize_text", t, humanize_text(t))
        /\ UNCHANGED <<target_voice, tables>>

\* apply_contractions(t, self.contractions): iterates the dict it is given
EngineApplyContractions ==
    \E t \in EngineInputs :
        /\ EngineReturns("apply_contractions", t, apply_contractions(t, self_contractions))
        /\ UNCHANGED <<target_voice, tables>>

\* apply_idioms(t, self.idioms)
EngineApplyIdioms ==
    \E t \in EngineInputs :
        /\ EngineReturns("apply_idioms", t, apply_idioms(t, self_idioms))
        /\ UNCHANGED <<target_voice, tables>>

\* transform_voice(t, v): works on locals only
EngineTransformVoice ==
    \E t \in EngineInputs, v \in TargetVoices :
        /\ EngineReturns("transform_voice", t, transform_voice(t, v))
        /\ target_voice' = v
        /\ UNCHANGED tables

EngineNext ==
    \/ EngineHumanizeText
    \/ EngineApplyContractions
    \/ EngineApplyIdioms
    \/ EngineTransformVoice

SpecEngine == EngineInit /\ [][EngineNext]_vars

(***************************************************************************)
(* C17: in every reachable state, across any sequence of humanize_text,    *)
(* apply_contractions, apply_idioms and transform_voice calls on the same  *)
(* engine, the contraction table and the idiom table have exactly the      *)
(* contents and the entry order they were constructed with.                *)
(***************************************************************************)
C17_TablesNeverChange ==
    /\ self_contractions = contractions
    /\ self_idioms = idioms

\* a call that went through both tables and changed its text has returned
C17_Witness ==
    /\ op = "humanize_text"
    /\ arg = ExampleText
    /\ out = ExampleHumanized
    /\ self_contractions = contractions
    /\ self_idioms = idioms

(***************************************************************************)
(* Specification SpecThreads: NumThreads threads each run one              *)
(* humanize_text call on the same engine, interleaved at the statements of *)
(* the method: one step is one re.sub call of a loop.  The parameter and   *)
(* the locals belong to the call, so arg, text, idx, pc and out hold one   *)
(* value per thread here; the tables are the engine's attributes, shared   *)
(* by all threads.                                                         *)
(***************************************************************************)
Threads == 1..NumThreads

ThreadInputs ==
    { <<"c","a","n","n","o","t">>,
      <<"y","o","u"," ","a","r","e"," ","n","o","t">>,
      <<"I"," ","A","M"," ","t","h","e","r","e","f","o","r","e">> }

ThreadsInit ==
    /\ arg \in [Threads -> ThreadInputs]
    /\ op = "humanize_text"
    /\ out = [t \in Threads |-> <<>>]
    /\ pc = [t \in Threads |-> "idle"]
    /\ text = [t \in Threads |-> <<>>]
    /\ idx = [t \in Threads |-> 0]
    /\ faulted = FALSE
    /\ order = TableOrder
    /\ target_voice = "none"
    /\ sentences = <<>>
    /\ transformed = <<>>
    /\ self_contractions = contractions
    /\ self_idioms = idioms
    /\ calls = <<>>

\* thread t enters humanize_text: the parameter `text` is bound
ThreadEnter(t) ==
    /\ pc[t] = "idle"
    /\ text' = [text EXCEPT ![t] = arg[t]]
    /\ idx' = [idx EXCEPT ![t] = 0]
    /\ pc' = [pc EXCEPT ![t] = "contractions"]
    /\ UNCHANGED <<arg, op, out, faulted, order, voiceVars, tables, calls>>

\* (the intermediate text kept in an attribute of the engine, self.text,
\* which every running call reads and writes)
ThreadLoopStepSharedText(t, table, here, next) ==
    /\ pc[t] = here
    /\ text' = [u \in Threads |->
                  re_sub(table[idx[t] + 1][1], table[idx[t] + 1][2], text[t])]
    /\ IF idx[t] + 1 < Len(table)
       THEN idx' = [idx EXCEPT ![t] = idx[t] + 1] /\ pc' = pc
       ELSE idx' = [idx EXCEPT ![t] = 0] /\ pc' = [pc EXCEPT ![t] = next]
    /\ UNCHANGED <<arg, op, out, faulted, order, voiceVars, tables, calls>>

\* thread t runs one iteration of a substitution loop:
\* text = re.sub(..., text, ...) on its own local
ThreadLoopStep(t, table, here, next) ==
    /\ pc[t] = here
    /\ text' = [text EXCEPT ![t] =
                  re_sub(table[idx[t] + 1][1], table[idx[t] + 1][2], text[t])]
    /\ IF idx[t] + 1 < Len(table)
       THEN idx' = [idx EXCEPT ![t] = idx[t] + 1] /\ pc' = pc
       ELSE idx' = [idx EXCEPT ![t] = 0] /\ pc' = [pc EXCEPT ![t] = next]
    /\ UNCHANGED <<arg, op, out, faulted, order, voiceVars, tables, calls>>

ThreadContractionStep(t) ==
    ThreadLoopStep(t, self_contractions, "contractions", "idioms")

ThreadIdiomStep(t) == ThreadLoopStep(t, self_idioms, "idioms", "log")

\* logger.info(...); return text
ThreadLogAndReturn(t) ==
    /\ pc[t] = "log"
    /\ out' = [out EXCEPT ![t] = text[t]]
    /\ pc' = [pc EXCEPT ![t] = "done"]
    /\ UNCHANGED <<arg, op, text, idx, faulted, order, voiceVars, tables,
                   calls>>

ThreadsNext ==
    \E t \in Threads :
        \/ ThreadEnter(t)
        \/ ThreadContractionStep(t)
        \/ ThreadIdiomStep(t)
        \/ ThreadLogAndReturn(t)

SpecThreads == ThreadsInit /\ [][ThreadsNext]_vars

(***************************************************************************)
(* C18: for any interleaving of the per-entry substitution steps of two or *)
(* more humanize_text calls on the same engine, each call returns exactly  *)
(* the result it returns when run alone on its own input.                  *)
(***************************************************************************)
C18_CallsIndependent ==
    \A t \in Threads : pc[t] = "done" => out[t] = humanize_text(arg[t])

\* a call has returned a changed text while another call, on a different
\* input, was in the middle of a loop with its own text already changed
C18_Witness ==
    \E t \in Threads, u \in Threads :
        /\ pc[t] = "done"
        /\ out[t] # arg[t]
        /\ out[t] = humanize_text(arg[t])
        /\ pc[u] \in {"contractions", "idioms"}
        /\ idx[u] > 0
        /\ arg[u] # arg[t]
        /\ text[u] # arg[u]

(***************************************************************************)
(* C21: voice transformation round-trips: for every chunk c that the       *)
(* passive rule rewrites, transform_voice(transform_voice(c, 'passive'),   *)
(* 'active') equals c.                                                     *)
(***************************************************************************)
C21_PassiveThenActiveRoundTrip ==
    target_voice = "passive" =>
        \A i \in 1..Len(transformed) :
            MatchesVoicePattern(sentences[i], "passive") =>
                transform_voice(transform_voice(sentences[i], "passive"), "active")
                    = sentences[i]

(***************************************************************************)
(* safe_input_processing.  A dict is a record of type "dict" whose value   *)
(* is the sequence of its (key, value) items in insertion order.           *)
(***************************************************************************)
PyDict(items) == [type |-> "dict", value |-> items]

\* repr(v) of a value that is not a dict
ReprAtom(v) == IF v.type = "str" THEN <<"'">> \o v.value \o <<"'">> ELSE v.value

\* the items of a dict as repr prints them: 'key': value, separated by ', '
RECURSIVE ReprItems(_)
ReprItems(items) ==
    IF items = <<>> THEN <<>>
    ELSE <<"'">> \o items[1][1] \o <<"'", ":", " ">> \o ReprAtom(items[1][2])
            \o (IF Len(items) > 1 THEN <<",", " ">> ELSE <<>>)
            \o ReprItems(Tail(items))

\* str(v)
PyStrOf(v) ==
    IF v.type = "dict" THEN PyStr(<<"{">> \o ReprItems(v.value) \o <<"}">>)
    ELSE PyStr(v.value)

\* bool(v): the truth value `or` tests
Truthy(v) ==
    CASE v.type = "str" -> v.value # <<>>
      [] v.type = "int" -> \E k \in 1..Len(v.value) : v.value[k] # "0"
      [] v.type = "NoneType" -> FALSE
      [] v.type = "dict" -> v.value # <<>>

\* input_data.get(key): the value stored under key, None when there is none
DictGet(dict, key) ==
    IF \E k \in 1..Len(dict.value) : dict.value[k][1] = key
    THEN dict.value[CHOOSE k \in 1..Len(dict.value) : dict.value[k][1] = key][2]
    ELSE PyNone

\* a or b
PyOr(a, b) == IF Truthy(a) THEN a ELSE b

KeyQuery == <<"q","u","e","r","y">>

KeyDescription == <<"d","e","s","c","r","i","p","t","i","o","n">>

KeyUrl == <<"u","r","l">>

\* safe_input_processing(input_data)
safe_input_processing(input_data) ==
    IF input_data.type = "dict"
    THEN PyOr(DictGet(input_data, KeyQuery),
         PyOr(DictGet(input_data, KeyDescription),
         PyOr(DictGet(input_data, KeyUrl), PyStrOf(input_data))))
    ELSE PyStrOf(input_data)

(***************************************************************************)
(* Specification SpecInput: one safe_input_processing call on a value of   *)
(* any type.                                                               *)
(***************************************************************************)
\* what a dict may hold under one key
EntryValues ==
    { PyStr(<<>>), PyStr(<<"M","I","T">>), PyNone, PyInt(<<"0">>), PyInt(<<"4","2">>) }

\* marks a key the dict does not have
Absent == [type |-> "absent", value |-> <<>>]

RECURSIVE SelectItems(_)
SelectItems(slots) ==
    IF slots = <<>> THEN <<>>
    ELSE (IF slots[1][2] = Absent THEN <<>> ELSE <<slots[1]>>)
            \o SelectItems(Tail(slots))

InputDicts ==
    { PyDict(SelectItems(<< <<KeyQuery, q>>, <<KeyDescription, d>>, <<KeyUrl, u>> >>)) :
        q \in EntryValues \cup {Absent},
        d \in EntryValues \cup {Absent},
        u \in EntryValues \cup {Absent} }

InputInit ==
    /\ (arg \in InputDicts \/ arg \in EntryValues)
    /\ op = "none"
    /\ out = PyNone
    /\ pc = "idle"
    /\ text = PyNone
    /\ idx = 0
    /\ faulted = FALSE
    /\ order = TableOrder
    /\ target_voice = "none"
    /\ sentences = <<>>
    /\ transformed = <<>>
    /\ self_contractions = contractions
    /\ self_idioms = idioms
    /\ calls = <<>>

CallSafeInputProcessing ==
    /\ pc = "idle"
    /\ op' = "safe_input_processing"
    /\ out' = safe_input_processing(arg)
    /\ pc' = "done"
    /\ UNCHANGED <<arg, text, idx, faulted, order, voiceVars, tables, calls>>

InputNext == CallSafeInputProcessing

SpecInput == InputInit /\ [][InputNext]_vars

(***************************************************************************)
(* C22: safe_input_processing returns a string for every input: for a dict *)
(* the first non-empty value among the keys 'query', 'description', 'url'  *)
(* in that order, or the string form of the whole dict when all three are  *)
(* missing or empty; for a non-dict the string form of the value.          *)
(***************************************************************************)
\* the value the dict holds under the first of the three keys whose value
\* is not empty, Absent when there is no such key
FirstNonEmpty(dict) ==
    LET keys == <<KeyQuery, KeyDescription, KeyUrl>>
        full == { k \in 1..3 : Truthy(DictGet(dict, keys[k])) }
    IN  IF full = {} THEN Absent
        ELSE DictGet(dict, keys[CHOOSE k \in full : \A j \in full : k <= j])

C22_ReturnsFirstNonEmptyAsString ==
    pc = "done" =>
        /\ out.type = "str"
        /\ arg.type # "dict" => out = PyStrOf(arg)
        /\ arg.type = "dict" =>
              IF FirstNonEmpty(arg) = Absent THEN out = PyStrOf(arg)
              ELSE out = FirstNonEmpty(arg)

(***************************************************************************)
(* The tool operations search_university, scrape_webpage and generate_sop  *)
(* of src/tools.py.  Each runs in a try block whose except branch returns  *)
(* the operation's prefix followed by str(e).                              *)
(***************************************************************************)
SearchPrefix == <<"S","e","a","r","c","h"," ","e","r","r","o","r",":"," ">>

ScrapePrefix == <<"S","c","r","a","p","i","n","g"," ","e","r","r","o","r",":",
      " ">>

SopPrefix == <<"S","O","P"," ","g","e","n","e","r","a","t","i","o","n"," ",
      "e","r","r","o","r",":"," ">>

\* f"<prefix>{str(e)}" for an exception with the given message
ErrorString(prefix, message) == PyStr(prefix \o message)

EmptySearchQuery == <<"E","m","p","t","y"," ","s","e","a","r","c","h"," ","q",
      "u","e","r","y">>

InvalidUrlFormat == <<"I","n","v","a","l","i","d"," ","U","R","L"," ","f","o",
      "r","m","a","t">>

IncompleteInputData == <<"I","n","c","o","m","p","l","e","t","e"," ","i","n",
      "p","u","t"," ","d","a","t","a">>

\* str(e) of the AttributeError raised by <int>.startswith
NoStartswith == <<"'","i","n","t","'"," ","o","b","j","e","c","t"," ","h","a",
      "s"," ","n","o"," ","a","t","t","r","i","b","u","t","e"," ","'","s","t","a","r","t","s","w","i","t","h","'">>

\* str(e) of the AttributeError raised by completion.create: litellm's
\* completion is a function
NoCreate == <<"'","f","u","n","c","t","i","o","n","'"," ","o","b","j","e","c",
      "t"," ","h","a","s"," ","n","o"," ","a","t","t","r","i","b","u","t","e"," ","'","c","r","e","a","t","e","'">>

\* s.split(sep), from position p on
RECURSIVE Split(_, _, _)
Split(s, sep, p) ==
    IF \E q \in p..(Len(s) - Len(sep) + 1) : SubSeq(s, q, q + Len(sep) - 1) = sep
    THEN LET q == CHOOSE q \in p..(Len(s) - Len(sep) + 1) :
                      /\ SubSeq(s, q, q + Len(sep) - 1) = sep
                      /\ \A r \in p..(q - 1) : SubSeq(s, r, r + Len(sep) - 1) # sep
         IN  <<SubSeq(s, p, q - 1)>> \o Split(s, sep, q + Len(sep))
    ELSE <<SubSeq(s, p, Len(s))>>

\* [x.strip() for x in parts]
StripAll(parts) == [i \in 1..Len(parts) |-> Strip(parts[i])]

\* the concatenation of the lists f(parts[1]), f(parts[2]), ... for f =
\* split on two blanks, each phrase stripped
RECURSIVE Phrases(_)
Phrases(lines) ==
    IF lines = <<>> THEN <<>>
    ELSE StripAll(Split(lines[1], <<" ", " ">>, 1)) \o Phrases(Tail(lines))

\* ' '.join(chunk for chunk in chunks if chunk)
RECURSIVE JoinNonEmpty(_)
JoinNonEmpty(chunks) ==
    IF chunks = <<>> THEN <<>>
    ELSE LET rest == JoinNonEmpty(Tail(chunks))
         IN  IF chunks[1] = <<>> THEN rest
             ELSE IF rest = <<>> THEN chunks[1]
             ELSE chunks[1] \o <<" ">> \o rest

\* scraped_content for a page whose text (soup.get_text()) is page_text:
\* lines stripped, split on double blanks, phrases stripped, empty ones
\* dropped, the rest joined by single blanks
scraped_content(page_text) ==
    JoinNonEmpty(Phrases(StripAll(Split(page_text, <<"\n">>, 1))))

\* an outcome of a call to a collaborator: it returns a value or raises
Gives(value) == [kind |-> "returns", value |-> value]

Raises(message) == [kind |-> "raises", value |-> message]

Mit == <<"M","I","T">>

MitIsInCambridge == <<"M","I","T"," ","i","s"," ","i","n"," ","C","a","m","b",
      "r","i","d","g","e">>

Ratelimit == <<"R","a","t","e","l","i","m","i","t">>

\* the text of a page: lines with blanks around and double blanks inside
CoursesPage == <<" ","M","I","T"," ","\n"," "," ","c","o","u","r","s","e","s",
      " "," ","a","n","d"," "," "," ","l","a","b","s"," ","\n","\n">>

ReadTimedOut == <<"R","e","a","d"," ","t","i","m","e","d"," ","o","u","t",".">>

ClientError404 == <<"4","0","4"," ","C","l","i","e","n","t"," ","E","r","r",
      "o","r">>

HttpsMitEdu == <<"h","t","t","p","s",":","/","/","m","i","t",".","e","d","u">>

HttpMitEdu == <<"h","t","t","p",":","/","/","m","i","t",".","e","d","u">>

FtpMitEdu == <<"f","t","p",":","/","/","m","i","t",".","e","d","u">>

\* self.search.run(query)
SearchOutcomes ==
    { Gives(MitIsInCambridge), Gives(Mit), Gives(<<>>),
      Raises(Ratelimit), Raises(ReadTimedOut) }

\* requests.get(url, ...) followed by response.raise_for_status(): the text
\* of the page, or the ConnectionError, Timeout or HTTPError raised
HttpOutcomes ==
    { Gives(CoursesPage), Gives(Mit), Gives(<<>>),
      Raises(ReadTimedOut), Raises(ClientError404) }

\* one call to a collaborator, as the log keeps it
Call(to, with, outcome) == [to |-> to, with |-> with, outcome |-> outcome]

\* the arguments the operations are called with in the model
SearchQueries ==
    << PyStr(<<>>), PyStr(Mit), PyNone, PyInt(<<"0">>),
       PyDict(<< <<KeyQuery, PyStr(Mit)>> >>),
       PyDict(<< <<KeyQuery, PyStr(<<>>)>>, <<KeyUrl, PyStr(Mit)>> >>),
       PyDict(<< <<KeyQuery, PyInt(<<"4","2">>)>> >>),
       PyDict(<<>>) >>

ScrapeUrls ==
    << PyStr(HttpsMitEdu), PyStr(HttpMitEdu), PyStr(FtpMitEdu),
       PyStr(<<"h","t","t","p">>), PyStr(<<>>), PyNone, PyInt(<<"4","2">>),
       PyDict(<< <<KeyUrl, PyStr(HttpsMitEdu)>> >>),
       PyDict(<< <<KeyUrl, PyInt(<<"4","2">>)>> >>),
       PyDict(<< <<KeyQuery, PyStr(FtpMitEdu)>>, <<KeyUrl, PyStr(HttpMitEdu)>> >>) >>

InfoValues ==
    << PyDict(<<>>), PyNone,
       PyDict(<< <<<<"n","a","m","e">>, PyStr(<<"A","d","a">>)>> >>),
       PyDict(<< <<<<"p","r","o","g","r","a","m">>, PyStr(<<"C","S">>)>> >>) >>

\* the arguments of a generate_sop call
SopArgs(student_info, program_info) ==
    [student_info |-> student_info, program_info |-> program_info]

(***************************************************************************)
(* Specification SpecTools: one call of search_university, scrape_webpage  *)
(* or generate_sop, statement by statement.  arg is the argument (for      *)
(* generate_sop the record of student_info and program_info), text the     *)
(* local processed_query or processed_url, faulted whether the except      *)
(* branch was taken; what a collaborator answers is chosen freely.         *)
(*                                                                         *)
(* pc: "idle" -> "search_run" | "http_get" | "llm" -> "done", or from any  *)
(* position to "done" through the except branch.                           *)
(***************************************************************************)
ToolsInit ==
    /\ \/ op = "search_university" /\ \E i \in 1..Len(SearchQueries) : arg = SearchQueries[i]
       \/ op = "scrape_webpage" /\ \E i \in 1..Len(ScrapeUrls) : arg = ScrapeUrls[i]
       \/ op = "generate_sop"
             /\ \E i \in 1..Len(InfoValues), j \in 1..Len(InfoValues) :
                   arg = SopArgs(InfoValues[i], InfoValues[j])
    /\ out = PyNone
    /\ pc = "idle"
    /\ text = PyNone
    /\ idx = 0
    /\ faulted = FALSE
    /\ order = TableOrder
    /\ target_voice = "none"
    /\ sentences = <<>>
    /\ transformed = <<>>
    /\ self_contractions = contractions
    /\ self_idioms = idioms
    /\ calls = <<>>

\* except Exception as e: logger.error(...); return f"<prefix>{str(e)}"
ToolExcept(prefix, message) ==
    /\ faulted' = TRUE
    /\ out' = ErrorString(prefix, message)
    /\ pc' = "done"

\* the statements of a try block up to the collaborator call went through
ToolProceeds(next) ==
    /\ pc' = next
    /\ UNCHANGED <<out, faulted>>

\* the collaborator is called, answers o, and the method returns
\* result(o.value) or takes the except branch
ToolCalls(to, prefix, o, result) ==
    /\ calls' = Append(calls, Call(to, text, o))
    /\ IF o.kind = "returns"
       THEN out' = PyStr(result) /\ pc' = "done" /\ UNCHANGED faulted
       ELSE ToolExcept(prefix, o.value)

\* processed_query = self.safe_input_processing(query);
\* if not processed_query: raise ValueError("Empty search query")
SearchValidate ==
    /\ op = "search_university" /\ pc = "idle"
    /\ text' = safe_input_processing(arg)
    /\ IF Truthy(text') THEN ToolProceeds("search_run")
       ELSE ToolExcept(SearchPrefix, EmptySearchQuery)
    /\ UNCHANGED <<arg, op, idx, order, voiceVars, tables, calls>>

\* results = self.search.run(processed_query); return results
SearchRun ==
    /\ pc = "search_run"
    /\ \E o \in SearchOutcomes : ToolCalls("search", SearchPrefix, o, o.value)
    /\ UNCHANGED <<arg, op, text, idx, order, voiceVars, tables>>

\* (the request prepared whatever the URL looks like)
ScrapeValidateNothing ==
    /\ op = "scrape_webpage" /\ pc = "idle"
    /\ text' = safe_input_processing(arg)
    /\ ToolProceeds("http_get")
    /\ UNCHANGED <<arg, op, idx, order, voiceVars, tables, calls>>

\* processed_url = self.safe_input_processing(url);
\* if not processed_url.startswith(('http://', 'https://')): raise ValueError
ScrapeValidate ==
    /\ op = "scrape_webpage" /\ pc = "idle"
    /\ text' = safe_input_processing(arg)
    /\ IF text'.type # "str" THEN ToolExcept(ScrapePrefix, NoStartswith)
       ELSE IF StartsWith(text'.value, <<"h","t","t","p",":","/","/">>)
                 \/ StartsWith(text'.value, <<"h","t","t","p","s",":","/",
                       "/">>)
            THEN ToolProceeds("http_get")
            ELSE ToolExcept(ScrapePrefix, InvalidUrlFormat)
    /\ UNCHANGED <<arg, op, idx, order, voiceVars, tables, calls>>

\* response = requests.get(...); response.raise_for_status(); the page text
\* is cleaned and returned
ScrapeGet ==
    /\ pc = "http_get"
    /\ \E o \in HttpOutcomes :
          ToolCalls("http", ScrapePrefix, o,
                    IF o.kind = "returns" THEN scraped_content(o.value) ELSE <<>>)
    /\ UNCHANGED <<arg, op, text, idx, order, voiceVars, tables>>

\* if not student_info or not program_info: raise ValueError(...)
GenerateValidate ==
    /\ op = "generate_sop" /\ pc = "idle"
    /\ IF Truthy(arg.student_info) /\ Truthy(arg.program_info)
       THEN ToolProceeds("llm")
       ELSE ToolExcept(SopPrefix, IncompleteInputData)
    /\ UNCHANGED <<arg, op, text, idx, order, voiceVars, tables, calls>>

\* the prompt is built, the client constructed; then completion.create is
\* looked up on the function `completion` and AttributeError is raised
\* before any request is made
GenerateCompletionCreate ==
    /\ pc = "llm"
    /\ ToolExcept(SopPrefix, NoCreate)
    /\ UNCHANGED <<arg, op, text, idx, order, voiceVars, tables, calls>>

ToolsNext ==
    \/ SearchValidate
    \/ SearchRun
    \/ ScrapeValidate
    \/ ScrapeGet
    \/ GenerateValidate
    \/ GenerateCompletionCreate

SpecTools == ToolsInit /\ [][ToolsNext]_vars

(***************************************************************************)
(* Vocabulary of the tool-operation properties.                            *)
(***************************************************************************)
PrefixOf(name) ==
    CASE name = "search_university" -> SearchPrefix
      [] name = "scrape_webpage" -> ScrapePrefix
      [] name = "generate_sop" -> SopPrefix

\* the argument does not pass the operation's input validation
ValidationFails ==
    CASE op = "search_university" -> ~Truthy(safe_input_processing(arg))
      [] op = "scrape_webpage" ->
            LET url == safe_input_processing(arg)
            IN  \/ url.type # "str"
                \/ /\ ~StartsWith(url.value, <<"h","t","t","p",":","/","/">>)
                   /\ ~StartsWith(url.value, <<"h","t","t","p","s",":","/",
                         "/">>)
      [] op = "generate_sop" -> ~Truthy(arg.student_info) \/ ~Truthy(arg.program_info)

\* the collaborator was called and raised
CollaboratorFails == calls # <<>> /\ calls[Len(calls)].outcome.kind = "raises"

\* what the operation hands back of the collaborator's answer
CollaboratorResult ==
    LET answer == calls[Len(calls)].outcome.value
    IN  PyStr(IF op = "scrape_webpage" THEN scraped_content(answer) ELSE answer)

(***************************************************************************)
(* C23: search_university, scrape_webpage and generate_sop never raise to  *)
(* the caller: when input validation fails or the search, HTTP or LLM      *)
(* collaborator fails, the call returns a string beginning with the        *)
(* operation's error prefix; otherwise it returns the collaborator's       *)
(* result.                                                                 *)
(***************************************************************************)
C23_ErrorStringOrCollaboratorResult ==
    pc = "done" =>
        /\ out.type = "str"
        /\ IF ValidationFails \/ CollaboratorFails
           THEN StartsWith(out.value, PrefixOf(op))
           ELSE calls # <<>> /\ out = CollaboratorResult

(***************************************************************************)
(* C24: input validation precedes every external call: the search          *)
(* collaborator is never invoked with an empty processed query, no HTTP    *)
(* request is issued for a processed URL that does not start with          *)
(* 'http://' or 'https://', and the LLM is never invoked with empty        *)
(* student_info or empty program_info.                                     *)
(***************************************************************************)
C24_ValidationBeforeExternalCall == ValidationFails => calls = <<>>

\* a call with a rejected URL has returned without a request, and the call
\* has gone through validation (its except branch was taken)
C24_Witness ==
    /\ op = "scrape_webpage"
    /\ pc = "done"
    /\ arg = PyStr(FtpMitEdu)
    /\ ValidationFails
    /\ faulted
    /\ calls = <<>>

(***************************************************************************)
(* Specification SpecCrew: one POST /generate-sop/ request, from the       *)
(* construction of SOPGenerationCrew to the response.  arg is the          *)
(* llm_config, idx counts the tasks the crew has executed, calls lists     *)
(* the executed tasks with their outputs, text is the outcome of the       *)
(* crew code (a returned SOP or the exception that reaches the handler)    *)
(* and out is the HTTP response.                                           *)
(***************************************************************************)
KeyModel == <<"m","o","d","e","l">>

KeyApiKey == <<"a","p","i","_","k","e","y">>

\* what llm_config may hold under one key
ConfigValues == { Absent, PyStr(<<>>), PyStr(<<"g","r","o","q">>) }

LlmConfigs ==
    { PyDict(SelectItems(<< <<KeyModel, m>>, <<KeyApiKey, k>> >>)) :
        m \in ConfigValues, k \in ConfigValues }

\* key in config
HasKey(config, key) == \E k \in 1..Len(config.value) : config.value[k][1] = key

\* validate_config(config) raises nothing
validate_config(config) ==
    \A key \in {KeyModel, KeyApiKey} :
        ~(~HasKey(config, key) \/ ~Truthy(DictGet(config, key)))

\* what the expression ValidationError(f"...") raises: pydantic's
\* ValidationError takes no message, so its construction fails with a
\* TypeError; were it constructed, it would be raised itself
ValidationErrorRaised == {"TypeError", "ValidationError"}

\* the exception classes a collaborator (crewai, langchain, pydantic) raises
ExceptionClasses == {"AttributeError", "ValueError", "RuntimeError", "TypeError"}

\* isinstance(e, ValueError): pydantic's ValidationError derives from it
IsValueError(class) == class \in {"ValueError", "ValidationError"}

\* SOPGenerationCrew.__init__: except Exception -> RuntimeError
init_except(class) == "RuntimeError"

\* generate_sop, fetching the agents: except AttributeError -> RuntimeError
agents_except(class) == IF class = "AttributeError" THEN "RuntimeError" ELSE class

\* generate_sop, creating the tasks: except Exception -> ValueError
tasks_except(class) == "ValueError"

\* generate_sop, creating and running the crew: except Exception ->
\* RuntimeError
crew_except(class) == "RuntimeError"

\* generate_sop, assembling the outputs: except Exception -> RuntimeError
outputs_except(class) == "RuntimeError"

\* the handler's except clauses, in order: ValueError, RuntimeError,
\* Exception
status_code(class) ==
    IF IsValueError(class) THEN 400
    ELSE IF class = "RuntimeError" THEN 500
    ELSE 500

\* tasks=[research_task, writing_task, humanize_task]
crew_tasks == <<"research", "writing", "humanize">>

\* the `raw` of a task output: a str, another value, or no attribute at all
TaskRaws == { PyStr(<<"M","I","T">>), PyStr(<<"S","O",
      "P">>), PyStr(<<>>), PyNone, Absent }

\* [task.raw for task in crew_output.tasks_output
\*     if hasattr(task, 'raw') and isinstance(task.raw, str)]
RECURSIVE sop_parts(_)
sop_parts(tasks_output) ==
    IF tasks_output = <<>> THEN <<>>
    ELSE (IF tasks_output[1] # Absent /\ tasks_output[1].type = "str"
          THEN <<tasks_output[1].value>> ELSE <<>>)
            \o sop_parts(Tail(tasks_output))

\* (the parts joined by a single newline)
RECURSIVE final_sop_single_newline(_)
final_sop_single_newline(parts) ==
    IF Len(parts) = 1 THEN parts[1]
    ELSE parts[1] \o <<"\n">> \o final_sop_single_newline(Tail(parts))

\* "\n\n".join(sop_parts), for a list that is not empty
RECURSIVE final_sop(_)
final_sop(parts) ==
    IF Len(parts) = 1 THEN parts[1]
    ELSE parts[1] \o <<"\n","\n">> \o final_sop(Tail(parts))

\* the outcome of the crew code: generate_sop returned value
Returned(value) ==
    [kind |-> "returns", class |-> "none", cause |-> "none", stage |-> "none",
     value |-> value]

\* the outcome of the crew code: the exception of class `class` leaves it,
\* made at `stage` from an exception of class `cause`
Raised(class, cause, stage) ==
    [kind |-> "raises", class |-> class, cause |-> cause, stage |-> stage,
     value |-> <<>>]

NoResponse == [status |-> 0, sop |-> <<>>]

\* crew_output.tasks_output
tasks_output == [i \in 1..Len(calls) |-> calls[i].outcome.value]

CrewInit ==
    /\ arg \in LlmConfigs
    /\ op = "POST /generate-sop/"
    /\ out = NoResponse
    /\ pc = "request"
    /\ text = PyNone
    /\ idx = 0
    /\ faulted = FALSE
    /\ order = TableOrder
    /\ target_voice = "none"
    /\ sentences = <<>>
    /\ transformed = <<>>
    /\ self_contractions = contractions
    /\ self_idioms = idioms
    /\ calls = <<>>

\* an exception leaves the crew code and the handler answers it:
\* raise HTTPException(status_code=..., detail=...)
HandlerExcept(class, cause, stage) ==
    /\ faulted' = TRUE
    /\ text' = Raised(class, cause, stage)
    /\ out' = [status |-> status_code(class), sop |-> <<>>]
    /\ pc' = "responded"

\* a stage of the crew code went through
CrewProceeds(next) ==
    /\ pc' = next
    /\ UNCHANGED <<out, text, faulted>>

\* crew = SOPGenerationCrew(llm_config): SOPAgents(llm_config) builds the
\* tools (validate_config, the search tool, the client, create_tools)
HandlerConstructCrew ==
    /\ pc = "request"
    /\ IF ~validate_config(arg)
       THEN \E class \in ValidationErrorRaised :
               HandlerExcept(init_except(class), class, "construct")
       ELSE \/ CrewProceeds("agents")
            \/ \E class \in ExceptionClasses :
                  HandlerExcept(init_except(class), class, "construct")
    /\ UNCHANGED <<arg, op, idx, order, voiceVars, tables, calls>>

\* researcher = ...get_research_agent(); writer = ...; humanizer = ...
GetAgents ==
    /\ pc = "agents"
    /\ \/ CrewProceeds("tasks")
       \/ \E class \in ExceptionClasses :
             HandlerExcept(agents_except(class), class, "agents")
    /\ UNCHANGED <<arg, op, idx, order, voiceVars, tables, calls>>

\* research_task = SOPTasks.create_research_task(...); writing_task = ...;
\* humanize_task = ...
CreateTasks ==
    /\ pc = "tasks"
    /\ \/ CrewProceeds("crew")
       \/ \E class \in ExceptionClasses :
             HandlerExcept(tasks_except(class), class, "tasks")
    /\ UNCHANGED <<arg, op, idx, order, voiceVars, tables, calls>>

\* crew.kickoff() executes the next task of the list: the task gives an
\* output or raises
CrewExecuteTask ==
    /\ pc = "crew"
    /\ idx < Len(crew_tasks)
    /\ idx' = idx + 1
    /\ \/ \E raw \in TaskRaws :
             /\ calls' = Append(calls, Call(crew_tasks[idx'], PyNone, Gives(raw)))
             /\ CrewProceeds(IF idx' = Len(crew_tasks) THEN "outputs" ELSE "crew")
       \/ \E class \in ExceptionClasses :
             /\ calls' = Append(calls, Call(crew_tasks[idx'], PyNone, Raises(<<>>)))
             /\ HandlerExcept(crew_except(class), class, "crew")
    /\ UNCHANGED <<arg, op, order, voiceVars, tables>>

\* sop_parts = [...]; if not sop_parts: raise ValueError(...);
\* final_sop = "\n\n".join(sop_parts); return final_sop;
\* the handler returns {"sop": sop}
AssembleOutputs ==
    /\ pc = "outputs"
    /\ IF sop_parts(tasks_output) = <<>>
       THEN HandlerExcept(outputs_except("ValueError"), "ValueError", "outputs")
       ELSE /\ text' = Returned(final_sop(sop_parts(tasks_output)))
            /\ out' = [status |-> 200, sop |-> text'.value]
            /\ pc' = "responded"
            /\ UNCHANGED faulted
    /\ UNCHANGED <<arg, op, idx, order, voiceVars, tables, calls>>

CrewNext ==
    \/ HandlerConstructCrew
    \/ GetAgents
    \/ CreateTasks
    \/ CrewExecuteTask
    \/ AssembleOutputs

SpecCrew == CrewInit /\ [][CrewNext]_vars

(***************************************************************************)
(* C25: the POST /generate-sop/ handler always ends in exactly one of a    *)
(* response {'sop': <string>}, an HTTP 400 or an HTTP 500; a failure while *)
(* constructing the agents (a config without 'model' or 'api_key'          *)
(* included), fetching the agents, running the crew or assembling the      *)
(* outputs yields HTTP 500, and only a failure while creating the tasks    *)
(* yields HTTP 400.                                                        *)
(***************************************************************************)
C25_HandlerEndsIn200Or400Or500 ==
    pc = "responded" =>
        /\ out.status \in {200, 400, 500}
        /\ out.status = 200 <=> text.kind = "returns"
        /\ text.kind = "raises" =>
              /\ text.stage \in {"construct", "agents", "crew", "outputs"}
                    => out.status = 500
              /\ out.status = 400 <=> text.stage = "tasks"

(***************************************************************************)
(* C26: SOPGenerationCrew.generate_sop runs the tasks in the fixed order   *)
(* research, writing, humanize and returns the string outputs of the       *)
(* executed tasks, in that order, joined by '\n\n'; outputs that are not   *)
(* strings are skipped, and when no task produced a string output the call *)
(* fails with a RuntimeError.                                              *)
(***************************************************************************)
\* the string outputs among outs, each but the last followed by a blank
\* line
RECURSIVE StringOutputsJoined(_)
StringOutputsJoined(outs) ==
    IF outs = <<>> THEN <<>>
    ELSE LET rest == Tail(outs)
             more == \E i \in 1..Len(rest) : rest[i].type = "str"
         IN  IF outs[1].type # "str" THEN StringOutputsJoined(rest)
             ELSE outs[1].value \o (IF more THEN <<"\n", "\n">> ELSE <<>>)
                     \o StringOutputsJoined(rest)

C26_OrderedJoinOfStringOutputs ==
    /\ \A i \in 1..Len(calls) :
          calls[i].to = <<"research", "writing", "humanize">>[i]
    /\ (pc = "responded" /\ Len(calls) = 3
            /\ calls[3].outcome.kind = "returns") =>
          IF \E i \in 1..3 : tasks_output[i].type = "str"
          THEN /\ text.kind = "returns"
               /\ text.value = StringOutputsJoined(tasks_output)
          ELSE /\ text.kind = "raises"
               /\ text.class = "RuntimeError"
               /\ text.stage = "outputs"

\* the research and humanize tasks gave strings, the writing task gave
\* None, and the call returned the two strings with a blank line between
C26_Witness ==
    /\ pc = "responded"
    /\ Len(calls) = 3
    /\ tasks_output = <<PyStr(<<"M","I","T">>), PyNone, PyStr(<<"S","O",
          "P">>)>>
    /\ text.kind = "returns"
    /\ text.value = <<"M","I","T","\n","\n","S","O","P">>

(***************************************************************************)
(* Specification SpecAgents: a SOPAgents object of src/agents.py or of     *)
(* src/core/agents.py and the agents its methods build, call after call.   *)
(* op is the package of the object, arg its tools_list, out the agents     *)
(* built so far, idx their number.                                         *)
(***************************************************************************)
\* StructuredTool.from_function(func=..., name=..., description=...)
StructuredTool(name, func) == [name |-> name, func |-> func]

\* create_tools() of src/tools.py
create_tools ==
    << StructuredTool("search_university", "search_university"),
       StructuredTool("scrape_webpage", "scrape_webpage"),
       StructuredTool("generate_sop", "generate_sop"),
       StructuredTool("humanize_text", "humanize_text") >>

\* create_tools() of src/core/tools.py
core_create_tools ==
    << StructuredTool("search_university", "search_university"),
       StructuredTool("scrape_webpage", "scrape_webpage"),
       StructuredTool("generate_sop", "generate_sop"),
       StructuredTool("humanize_text", "humanize_text"),
       StructuredTool("Human Interaction Tool", "run") >>

\* [tool for tool in self.tools_list if tool.name in names]
RECURSIVE select_tools(_, _)
select_tools(tools_list, names) ==
    IF tools_list = <<>> THEN <<>>
    ELSE (IF tools_list[1].name \in names THEN <<tools_list[1]>> ELSE <<>>)
            \o select_tools(Tail(tools_list), names)

\* Agent(role=..., tools=...); an Agent built without tools has none
Agent(role, tools) == [role |-> role, tools |-> tools]

AgentsInit ==
    /\ \/ op = "src" /\ arg = create_tools
       \/ op = "src/core" /\ arg = core_create_tools
    /\ out = <<>>
    /\ pc = "ready"
    /\ text = PyNone
    /\ idx = 0
    /\ faulted = FALSE
    /\ order = TableOrder
    /\ target_voice = "none"
    /\ sentences = <<>>
    /\ transformed = <<>>
    /\ self_contractions = contractions
    /\ self_idioms = idioms
    /\ calls = <<>>

\* a method of SOPAgents returns the agent it built
AgentBuilt(agent) ==
    /\ idx < MaxAgents
    /\ idx' = idx + 1
    /\ out' = Append(out, agent)
    /\ UNCHANGED <<arg, op, pc, text, faulted, order, voiceVars, tables, calls>>

get_research_agent ==
    AgentBuilt(Agent("Program Researcher",
                     select_tools(arg, {"search_university", "scrape_webpage"})))

get_writer_agent ==
    AgentBuilt(Agent("SOP Writer", select_tools(arg, {"generate_sop"})))

get_humanizer_agent ==
    AgentBuilt(Agent("Text Humanizer", select_tools(arg, {"humanize_text"})))

manager_agent ==
    /\ op = "src/core"
    /\ AgentBuilt(Agent("Project Manager", <<>>))

interaction_agent ==
    /\ op = "src/core"
    /\ AgentBuilt(Agent("Information Gathering Specialist",
                        select_tools(arg, {"run"})))

AgentsNext ==
    \/ get_research_agent
    \/ get_writer_agent
    \/ get_humanizer_agent
    \/ manager_agent
    \/ interaction_agent

SpecAgents == AgentsInit /\ [][AgentsNext]_vars

(***************************************************************************)
(* C27: each agent is equipped with exactly the tools of its role,         *)
(* selected by name from the list create_tools returns: the research agent *)
(* with search_university and scrape_webpage, the writer agent with        *)
(* generate_sop, the humanizer agent with humanize_text and (in src/core)  *)
(* the interaction agent with the human-interaction tool whose function is *)
(* run; no agent that selects tools ends up with an empty tool list.       *)
(***************************************************************************)
\* the functions of the tools of an agent, in order
ToolFuncs(agent) == [i \in 1..Len(agent.tools) |-> agent.tools[i].func]

\* the functions the tools of a role are made of
RoleFuncs(role) ==
    CASE role = "Program Researcher" -> <<"search_university",
           "scrape_webpage">>
      [] role = "SOP Writer" -> <<"generate_sop">>
      [] role = "Text Humanizer" -> <<"humanize_text">>
      [] role = "Information Gathering Specialist" -> <<"run">>
      [] role = "Project Manager" -> <<>>

C27_AgentsHoldToolsOfTheirRole ==
    \A i \in 1..Len(out) :
        /\ ToolFuncs(out[i]) = RoleFuncs(out[i].role)
        /\ \A k \in 1..Len(out[i].tools) :
              \E j \in 1..Len(arg) : arg[j] = out[i].tools[k]
        /\ out[i].role # "Project Manager" => out[i].tools # <<>>

(***************************************************************************)
(* The human-interaction tool of src/core/tools.py: run, validate_and_     *)
(* prompt and ask_clarifying_question.  A list is a record of type "list"  *)
(* whose value is the sequence of its elements.                            *)
(***************************************************************************)
PyList(items) == [type |-> "list", value |-> items]

FieldAcademicBackground == <<"a","c","a","d","e","m","i","c","_","b","a","c",
      "k","g","r","o","u","n","d">>

FieldWorkExperience == <<"w","o","r","k","_","e","x","p","e","r","i","e","n",
      "c","e">>

FieldResearchInterests == <<"r","e","s","e","a","r","c","h","_","i","n","t",
      "e","r","e","s","t","s">>

FieldMotivation == <<"m","o","t","i","v","a","t","i","o","n">>

FieldCareerGoals == <<"c","a","r","e","e","r","_","g","o","a","l","s">>

FieldExtracurricularActivities == <<"e","x","t","r","a","c","u","r","r","i",
      "c","u","l","a","r","_","a","c","t","i","v","i","t","i","e","s">>

FieldProgramSpecificDetails == <<"p","r","o","g","r","a","m","_","s","p","e",
      "c","i","f","i","c","_","d","e","t","a","i","l","s">>

FieldCountryChoice == <<"c","o","u","n","t","r","y","_","c","h","o","i","c",
      "e">>

FieldGpa == <<"g","p","a">>

FieldName == <<"n","a","m","e">>

\* the dict `questions` of ask_clarifying_question, as its items
questions ==
    << <<FieldAcademicBackground,
          <<"C","o","u","l","d"," ","y","o","u"," ","p","r","o","v","i","d",
                "e"," ","d","e","t","a","i","l","s"," ","a","b","o","u","t"," ","y","o","u","r"," ","a","c","a","d","e","m","i","c"," ","q","u","a","l","i","f","i","c","a","t","i","o","n","s","?"," ","(","D","e","g","r","e","e",","," ","m","a","j","o","r",","," ","u","n","i","v","e","r","s","i","t","y",","," ","G","P","A",","," ","r","e","l","e","v","a","n","t"," ","c","o","u","r","s","e","w","o","r","k",")">>>>,
       <<FieldWorkExperience,
          <<"C","a","n"," ","y","o","u"," ","s","h","a","r","e"," ","d","e",
                "t","a","i","l","s"," ","a","b","o","u","t"," ","y","o","u","r"," ","p","r","o","f","e","s","s","i","o","n","a","l"," ","e","x","p","e","r","i","e","n","c","e","?"," ","(","R","o","l","e",","," ","c","o","m","p","a","n","y",","," ","d","u","r","a","t","i","o","n",","," ","k","e","y"," ","r","e","s","p","o","n","s","i","b","i","l","i","t","i","e","s",")">>>>,
       <<FieldResearchInterests,
          <<"W","h","a","t"," ","a","r","e"," ","y","o","u","r"," ","r","e",
                "s","e","a","r","c","h"," ","i","n","t","e","r","e","s","t","s"," ","o","r"," ","a","c","a","d","e","m","i","c"," ","p","a","s","s","i","o","n","s"," ","r","e","l","a","t","e","d"," ","t","o"," ","t","h","i","s"," ","p","r","o","g","r","a","m","?">>>>,
       <<FieldMotivation,
          <<"W","h","a","t"," ","s","p","e","c","i","f","i","c","a","l","l",
                "y"," ","m","o","t","i","v","a","t","e","s"," ","y","o","u"," ","t","o"," ","p","u","r","s","u","e"," ","t","h","i","s"," ","p","a","r","t","i","c","u","l","a","r"," ","p","r","o","g","r","a","m","?">>>>,
       <<FieldCareerGoals,
          <<"W","h","a","t"," ","a","r","e"," ","y","o","u","r"," ","l","o",
                "n","g","-","t","e","r","m"," ","c","a","r","e","e","r"," ","o","b","j","e","c","t","i","v","e","s"," ","a","f","t","e","r"," ","c","o","m","p","l","e","t","i","n","g"," ","t","h","i","s"," ","p","r","o","g","r","a","m","?">>>>,
       <<FieldExtracurricularActivities,
          <<"W","o","u","l","d"," ","y","o","u"," ","l","i","k","e"," ","t",
                "o"," ","m","e","n","t","i","o","n"," ","a","n","y"," ","s","i","g","n","i","f","i","c","a","n","t"," ","e","x","t","r","a","c","u","r","r","i","c","u","l","a","r"," ","a","c","t","i","v","i","t","i","e","s"," ","o","r"," ","a","c","h","i","e","v","e","m","e","n","t","s","?">>>>,
       <<FieldProgramSpecificDetails,
          <<"W","h","y"," ","a","r","e"," ","y","o","u"," ","i","n","t","e",
                "r","e","s","t","e","d"," ","i","n"," ","t","h","i","s"," ","s","p","e","c","i","f","i","c"," ","p","r","o","g","r","a","m"," ","a","t"," ","t","h","i","s"," ","u","n","i","v","e","r","s","i","t","y","?">>>>,
       <<FieldCountryChoice,
          <<"W","h","a","t"," ","f","a","c","t","o","r","s"," ","i","n","f",
                "l","u","e","n","c","e","d"," ","y","o","u","r"," ","d","e","c","i","s","i","o","n"," ","t","o"," ","s","t","u","d","y"," ","i","n"," ","t","h","i","s"," ","p","a","r","t","i","c","u","l","a","r"," ","c","o","u","n","t","r","y","?">>>> >>

\* default_required_fields
default_required_fields ==
    <<FieldAcademicBackground, FieldWorkExperience, FieldMotivation, FieldCareerGoals>>
\* questions.get(field, f"Please provide more information about {field}")
question(field) ==
    IF \E k \in 1..Len(questions) : questions[k][1] = field
    THEN questions[CHOOSE k \in 1..Len(questions) : questions[k][1] = field][2]
    ELSE <<"P","l","e","a","s","e"," ","p","r","o","v","i","d","e"," ","m",
          "o","r","e"," ","i","n","f","o","r","m","a","t","i","o","n"," ","a","b","o","u","t"," ">> \o field

\* d[key] = value on the items of a dict: the value of an existing key is
\* replaced in place, a new key is appended
DictSet(items, key, value) ==
    IF \E k \in 1..Len(items) : items[k][1] = key
    THEN [k \in 1..Len(items) |->
            IF items[k][1] = key THEN <<key, value>> ELSE items[k]]
    ELSE Append(items, <<key, value>>)

\* context.update(user_responses), on the items of the two dicts
RECURSIVE DictUpdate(_, _)
DictUpdate(items, other) ==
    IF other = <<>> THEN items
    ELSE DictUpdate(DictSet(items, other[1][1], other[1][2]), Tail(other))

\* required_fields or default_required_fields
fields_to_check(required_fields) ==
    IF required_fields.type = "list" /\ required_fields.value # <<>>
    THEN required_fields.value
    ELSE default_required_fields

\* not context.get(field) or context[field] == ''
IsMissing(context, field) ==
    \/ ~Truthy(DictGet(context, field))
    \/ DictGet(context, field) = PyStr(<<>>)

\* [field for field in required_fields if not context.get(field) or ...]
RECURSIVE missing_fields(_, _)
missing_fields(context, required_fields) ==
    IF required_fields = <<>> THEN <<>>
    ELSE (IF IsMissing(context, required_fields[1])
          THEN <<required_fields[1]>> ELSE <<>>)
            \o missing_fields(context, Tail(required_fields))

(***************************************************************************)
(* Specification SpecRun: one call run(context, required_fields).  arg     *)
(* holds the two arguments, text the locals of ask_clarifying_question,    *)
(* idx the position of its loop, calls the prompts made so far with the    *)
(* user's answers, out the returned context.                               *)
(***************************************************************************)
\* what the context may hold under one key
ContextValues ==
    { Absent, PyStr(<<>>), PyStr(<<"B","S","c">>), PyNone, PyInt(<<"0">>) }

RunContexts ==
    { PyDict(SelectItems(<< <<FieldName, n>>, <<FieldMotivation, m>>,
                            <<FieldGpa, g>> >>)) :
        n \in {Absent, PyStr(<<"A","d","a">>)},
        m \in ContextValues,
        g \in ContextValues }

\* the required_fields argument
RunRequiredFields ==
    << PyNone,
       PyList(<<>>),
       PyList(<<FieldMotivation>>),
       PyList(<<FieldGpa, FieldMotivation>>),
       PyList(<<FieldMotivation, FieldGpa>>),
       PyList(<<FieldGpa, FieldGpa>>) >>

\* what the user types at a prompt
UserInputs == { <<>>, <<" ","M","S","c"," ">> }

RunArgs(context, required_fields) ==
    [context |-> context, required_fields |-> required_fields]

RunLocals(missing, user_responses) ==
    [missing_fields |-> missing, user_responses |-> user_responses]

RunInit ==
    /\ \E c \in RunContexts, i \in 1..Len(RunRequiredFields) :
          arg = RunArgs(c, RunRequiredFields[i])
    /\ op = "run"
    /\ out = PyNone
    /\ pc = "idle"
    /\ text = RunLocals(<<>>, <<>>)
    /\ idx = 0
    /\ faulted = FALSE
    /\ order = TableOrder
    /\ target_voice = "none"
    /\ sentences = <<>>
    /\ transformed = <<>>
    /\ self_contractions = contractions
    /\ self_idioms = idioms
    /\ calls = <<>>

\* run: fields_to_check = required_fields or default_required_fields;
\* validate_and_prompt: missing_fields = [...]; if missing_fields: return
\* self.ask_clarifying_question(context, missing_fields); return context
RunValidateAndPrompt ==
    /\ pc = "idle"
    /\ LET missing == missing_fields(arg.context,
                                     fields_to_check(arg.required_fields))
       IN  IF missing # <<>>
           THEN /\ text' = RunLocals(missing, <<>>)
                /\ pc' = "asking"
                /\ UNCHANGED out
           ELSE /\ out' = arg.context
                /\ pc' = "done"
                /\ UNCHANGED text
    /\ UNCHANGED <<arg, op, idx, faulted, order, voiceVars, tables, calls>>

\* one turn of `for field in missing_fields`: print(question);
\* response = input("Your response: ").strip();
\* user_responses[field] = response
AskNextField ==
    /\ pc = "asking"
    /\ idx < Len(text.missing_fields)
    /\ idx' = idx + 1
    /\ \E typed \in UserInputs :
          LET field == text.missing_fields[idx']
              response == Strip(typed)
          IN  /\ calls' = Append(calls, Call("input", field,
                                            [question |-> question(field),
                                             response |-> response]))
              /\ text' = [text EXCEPT !.user_responses =
                            DictSet(@, field, response)]
    /\ UNCHANGED <<arg, op, out, pc, faulted, order, voiceVars, tables>>

\* context.update(user_responses); return context
AskReturn ==
    /\ pc = "asking"
    /\ idx = Len(text.missing_fields)
    /\ out' = PyDict(DictUpdate(arg.context.value,
                [k \in 1..Len(text.user_responses) |->
                    <<text.user_responses[k][1],
                      PyStr(text.user_responses[k][2])>>]))
    /\ pc' = "done"
    /\ UNCHANGED <<arg, op, text, idx, faulted, order, voiceVars, tables, calls>>

RunNext ==
    \/ RunValidateAndPrompt
    \/ AskNextField
    \/ AskReturn

SpecRun == RunInit /\ [][RunNext]_vars

(***************************************************************************)
(* C28: run(context, required_fields) prompts exactly once, in list order, *)
(* for each checked field that is absent from or empty in the context and  *)
(* for no other field; it leaves every other context entry unchanged; on   *)
(* return every checked field is a key of the returned context.  The       *)
(* checked fields are required_fields, or the four defaults                *)
(* (academic_background, work_experience, motivation, career_goals) when   *)
(* required_fields is None or empty.                                       *)
(***************************************************************************)
\* the checked fields of the call
CheckedFields ==
    IF arg.required_fields.type = "NoneType" THEN default_required_fields
    ELSE IF Len(arg.required_fields.value) = 0
         THEN <<FieldAcademicBackground, FieldWorkExperience,
                FieldMotivation, FieldCareerGoals>>
         ELSE arg.required_fields.value

\* the context of the call has no entry for field, or an empty one
AbsentOrEmpty(field) ==
    \/ ~HasKey(arg.context, field)
    \/ DictGet(arg.context, field) \in {PyStr(<<>>), PyNone}

\* the fields the user was prompted for, in order
PromptedFields == [i \in 1..Len(calls) |-> calls[i].with]

\* the place of the first occurrence of field in the checked list
FirstPlace(field) ==
    CHOOSE i \in 1..Len(CheckedFields) :
        /\ CheckedFields[i] = field
        /\ \A j \in 1..(i - 1) : CheckedFields[j] # field

C28_PromptsOncePerMissingField ==
    pc = "done" =>
        /\ \A i \in 1..Len(CheckedFields) :
              LET field == CheckedFields[i]
                  asked == {k \in 1..Len(calls) : PromptedFields[k] = field}
              IN  /\ Cardinality(asked) = IF AbsentOrEmpty(field) THEN 1 ELSE 0
                  /\ HasKey(out, field)
        /\ \A k \in 1..Len(calls) :
              \E i \in 1..Len(CheckedFields) : CheckedFields[i] = PromptedFields[k]
        /\ \A k \in 1..Len(calls), l \in 1..Len(calls) :
              k < l => FirstPlace(PromptedFields[k]) < FirstPlace(PromptedFields[l])
        /\ \A k \in 1..Len(arg.context.value) :
              LET entry == arg.context.value[k]
              IN  (\A l \in 1..Len(calls) : PromptedFields[l] # entry[1])
                      => out.value[k] = entry

====
